---- MODULE Spec2Model ----
(***************************************************************************)
(* Model of the bin-tree and its per-evaluation state (bintree.go):        *)
(* binTree / binTreeState, MarkNode, checkNode, resolveRecursive, Resolve, *)
(* Reset, ResetNode, SetStallIndex and the tree validator.                 *)
(***************************************************************************)
EXTENDS Integers, Sequences, FiniteSets, TLC

\* Largest number of nodes of a tree, for the specifications that exercise
\* the whole interface of the state.
MaxNodes == 4

\* Largest number of nodes of a tree, for the specification that runs a
\* second state next to the first.
MaxTwinNodes == 3

\* Largest number of nodes of a tree, for the specifications in which the
\* evaluator only feeds leaves.
MaxFeedNodes == 5

\* Largest number of nodes of a node array handed to the validator.
MaxBuildNodes == 3

\* Largest number of nodes of a tree, and largest number of stall indexes a
\* caller has saved, for the specification of nested stall scopes.
MaxStackNodes == 3
MaxStackDepth == 2

\* Largest number of nodes of a tree, for the specification of two states
\* that share a tree.
MaxPairNodes == 2

\* Largest number of nodes of a tree, for the specification of a state
\* copied from another state.
MaxCopyNodes == 2

\* The compile entry point is given parse trees of at most MaxCompileSize
\* operands.
MaxCompileSize == 2

\* The specification of a state driven through marks, stall indexes, resets
\* and Resolve uses trees of at most MaxResetNodes nodes, the one of a state
\* driven without ResetNode trees of at most MaxClosedNodes nodes.
MaxResetNodes == 3
MaxClosedNodes == 3

\* The specification that remembers whether a stall was ever installed uses
\* trees of at most MaxForcedNodes nodes.
MaxForcedNodes == 4

\* Largest size of a parsed filter expression (its operands and NOTs), and
\* largest number of opening and of closing parentheses of an AndCondition.
MaxExprSize == 3
MaxParens == 1

\* Largest number of operands and NOTs of one AndCondition of the parsed
\* expressions whose parentheses are changed between two lowerings.
MaxParenSize == 1

\* BinTreeNodeType (iota).
nodeTypeLeaf == 0
nodeTypeOr == 1
nodeTypeAnd == 2
nodeTypeNot == 3
nodeTypeNeor == 4
nodeTypeLoop == 5

\* binTreeStateValue (iota).
binTreeStateUnknown == 0
binTreeStateResolved == 1
binTreeStateTrue == 2
binTreeStateFalse == 3

NoPanic == "none"
PanicMarkedTwice == "cannot resolve same state node twice"
PanicCheckLeaf == "cannot check leaf"
PanicInvalidMode == "invalid node mode"
\* The run-time panic of an index expression outside the slice.
PanicIndexOutOfRange == "index out of range"

VARIABLES
    tree,        \* binTreeState.tree: the shared, immutable binTree (its data array)
    data,        \* binTreeState.data: one binTreeStateValue per node
    stallIndex,  \* binTreeState.stallIndex
    call,        \* the last call on the state and its outcome
    caller       \* the local variables of the code that drives the state

vars == <<tree, data, stallIndex, call, caller>>

binTreeNodeTypeHasLeft(nodeType) == nodeType # nodeTypeLeaf

binTreeNodeTypeHasRight(nodeType) ==
    nodeType # nodeTypeLeaf /\ nodeType # nodeTypeNot /\ nodeType # nodeTypeLoop

NewBinTreeNode(nodeType, parent, left, right) ==
    [NodeType |-> nodeType, ParentIdx |-> parent, Left |-> left, Right |-> right]

NumNodes(t) == Cardinality(DOMAIN t)

(***************************************************************************)
(* The node arrays the states are built on: every pre-order layout of at   *)
(* most maxNodes nodes, kept when the validator accepts it.                *)
(***************************************************************************)
UnaryTypes == {nodeTypeNot, nodeTypeLoop}
BinaryTypes == {nodeTypeOr, nodeTypeAnd, nodeTypeNeor}

RECURSIVE TypeSeqs(_)
TypeSeqs(n) ==
    IF n = 1 THEN {<<nodeTypeLeaf>>}
    ELSE {<<u>> \o s : u \in UnaryTypes, s \in TypeSeqs(n - 1)}
         \cup UNION {{<<b>> \o l \o r : b \in BinaryTypes,
                                       l \in TypeSeqs(k),
                                       r \in TypeSeqs(n - 1 - k)} : k \in 1..(n - 2)}

RECURSIVE SubtreeSize(_, _)
SubtreeSize(ts, i) ==
    IF ~binTreeNodeTypeHasLeft(ts[i]) THEN 1
    ELSE IF ~binTreeNodeTypeHasRight(ts[i]) THEN 1 + SubtreeSize(ts, i + 1)
    ELSE LET l == SubtreeSize(ts, i + 1)
         IN 1 + l + SubtreeSize(ts, i + 1 + l)

BuildTree(ts) ==
    LET n == Len(ts)
        left(i) == IF binTreeNodeTypeHasLeft(ts[i + 1]) THEN i + 1 ELSE 0
        right(i) == IF binTreeNodeTypeHasRight(ts[i + 1])
                    THEN i + 1 + SubtreeSize(ts, i + 2) ELSE 0
        parent(i) == IF i = 0 THEN 0
                     ELSE CHOOSE p \in 0..(n - 1) : left(p) = i \/ right(p) = i
    IN [i \in 0..(n - 1) |-> NewBinTreeNode(ts[i + 1], parent(i), left(i), right(i))]

\* validateItem: the position after the subtree of item, -1 for an error,
\* -2 when the walk reads past the end of the array.
RECURSIVE validateItem(_, _, _)
validateItem(t, item, parent) ==
    IF item \notin DOMAIN t THEN -2
    ELSE
    LET idata == t[item]
        len == NumNodes(t)
    IN IF idata.ParentIdx # parent THEN -1
       ELSE IF idata.NodeType = nodeTypeLeaf THEN item + 1
       ELSE IF idata.NodeType \notin {nodeTypeAnd, nodeTypeOr, nodeTypeNot,
                                      nodeTypeNeor, nodeTypeLoop} THEN -1
       ELSE IF ~binTreeNodeTypeHasLeft(idata.NodeType) /\ idata.Left # 0 THEN -1
       ELSE IF binTreeNodeTypeHasLeft(idata.NodeType)
               /\ (idata.Left <= 0 \/ idata.Left >= len) THEN -1
       ELSE IF ~binTreeNodeTypeHasRight(idata.NodeType) /\ idata.Right # 0 THEN -1
       ELSE IF binTreeNodeTypeHasRight(idata.NodeType)
               /\ (idata.Right <= 0 \/ idata.Right >= len) THEN -1
       ELSE LET pos1 == IF binTreeNodeTypeHasLeft(idata.NodeType)
                        THEN validateItem(t, item + 1, item) ELSE item + 1
            IN IF pos1 < 0 THEN pos1
               ELSE IF binTreeNodeTypeHasRight(idata.NodeType)
                    THEN validateItem(t, pos1, item) ELSE pos1

\* Validate: TRUE when it returns nil.
Validate(t) ==
    LET pos == validateItem(t, 0, 0)
    IN pos >= 0 /\ pos = NumNodes(t)

\* Validate's outcome: "nil", "error" for an error value, "panic" when the
\* walk indexes tree.data outside the slice.
ValidateOutcome(t) ==
    LET pos == validateItem(t, 0, 0)
    IN IF pos = -2 THEN "panic"
       ELSE IF pos = -1 THEN "error"
       ELSE IF pos # NumNodes(t) THEN "error"
       ELSE "nil"

ValidTrees(maxNodes) ==
    {t \in {BuildTree(ts) : ts \in UNION {TypeSeqs(n) : n \in 1..maxNodes}} : Validate(t)}

Nodes == DOMAIN tree
Leaves == {i \in Nodes : tree[i].NodeType = nodeTypeLeaf}

\* The proper ancestors of node i, and the nodes of the subtree of node i.
RECURSIVE ProperAncestors(_)
ProperAncestors(i) ==
    IF i = 0 THEN {} ELSE {tree[i].ParentIdx} \cup ProperAncestors(tree[i].ParentIdx)

Subtree(i) == {n \in Nodes : n = i \/ i \in ProperAncestors(n)}

(***************************************************************************)
(* binTreeState operations.  A state value st carries the fields of the    *)
(* struct (data, stallIndex) and the outcome of the call in progress:      *)
(* panic (the panic message, NoPanic when none), marked (the indexes       *)
(* MarkNode was entered with and accepted, in order) and early (the        *)
(* accepted indexes that still had an Unknown child on entry), and ret, the *)
(* value SetStallIndex returns.                                            *)
(***************************************************************************)
NewState(t) == [data |-> [i \in DOMAIN t |-> 0], stallIndex |-> 0]

Begin(d, s) ==
    [data |-> d, stallIndex |-> s, panic |-> NoPanic, marked |-> <<>>, early |-> {},
     ret |-> 0]

IsResolved(st, index) == st.data[index] # binTreeStateUnknown

IsTrue(st, index) == st.data[index] = binTreeStateTrue

RECURSIVE resolveRecursive(_, _)

\* resolveRecursive without the test that the child is still Unknown.
resolveRecursiveOverwrite(d, index) ==
    LET defNode == tree[index]
        d1 == IF binTreeNodeTypeHasLeft(defNode.NodeType)
              THEN resolveRecursive([d EXCEPT ![defNode.Left] = binTreeStateResolved],
                                    defNode.Left)
              ELSE d
        d2 == IF binTreeNodeTypeHasRight(defNode.NodeType)
              THEN resolveRecursive([d1 EXCEPT ![defNode.Right] = binTreeStateResolved],
                                    defNode.Right)
              ELSE d1
    IN d2

\* resolveRecursive without the descent into the children it resolves.
resolveRecursiveShallow(d, index) ==
    LET defNode == tree[index]
        d1 == IF binTreeNodeTypeHasLeft(defNode.NodeType)
                 /\ d[defNode.Left] = binTreeStateUnknown
              THEN [d EXCEPT ![defNode.Left] = binTreeStateResolved]
              ELSE d
        d2 == IF binTreeNodeTypeHasRight(defNode.NodeType)
                 /\ d1[defNode.Right] = binTreeStateUnknown
              THEN [d1 EXCEPT ![defNode.Right] = binTreeStateResolved]
              ELSE d1
    IN d2

resolveRecursive(d, index) ==
    LET defNode == tree[index]
        d1 == IF binTreeNodeTypeHasLeft(defNode.NodeType)
                 /\ d[defNode.Left] = binTreeStateUnknown
              THEN resolveRecursive([d EXCEPT ![defNode.Left] = binTreeStateResolved],
                                    defNode.Left)
              ELSE d
        d2 == IF binTreeNodeTypeHasRight(defNode.NodeType)
                 /\ d1[defNode.Right] = binTreeStateUnknown
              THEN resolveRecursive([d1 EXCEPT ![defNode.Right] = binTreeStateResolved],
                                    defNode.Right)
              ELSE d1
    IN d2

\* checkNode's decision with the And node's "both True" test written as "either".
checkNodeValueAndEither(nodeType, l, r) ==
    IF nodeType = nodeTypeOr THEN
        IF l = binTreeStateTrue \/ r = binTreeStateTrue THEN binTreeStateTrue
        ELSE IF l = binTreeStateFalse /\ r = binTreeStateFalse THEN binTreeStateFalse
        ELSE binTreeStateUnknown
    ELSE IF nodeType = nodeTypeNeor THEN
        IF l # binTreeStateUnknown /\ r # binTreeStateUnknown THEN
            IF l = binTreeStateTrue \/ r = binTreeStateTrue THEN binTreeStateTrue
            ELSE binTreeStateFalse
        ELSE binTreeStateUnknown
    ELSE IF nodeType = nodeTypeAnd THEN
        IF l = binTreeStateTrue \/ r = binTreeStateTrue THEN binTreeStateTrue
        ELSE IF l = binTreeStateFalse \/ r = binTreeStateFalse THEN binTreeStateFalse
        ELSE binTreeStateUnknown
    ELSE IF nodeType = nodeTypeNot THEN
        IF l = binTreeStateTrue THEN binTreeStateFalse
        ELSE IF l = binTreeStateFalse THEN binTreeStateTrue
        ELSE binTreeStateUnknown
    ELSE
        IF l = binTreeStateTrue THEN binTreeStateTrue
        ELSE IF l = binTreeStateFalse THEN binTreeStateFalse
        ELSE binTreeStateUnknown

\* checkNode's decision with the Neor node decided like an Or node.
checkNodeValueNeorAsOr(nodeType, l, r) ==
    IF nodeType = nodeTypeOr \/ nodeType = nodeTypeNeor THEN
        IF l = binTreeStateTrue \/ r = binTreeStateTrue THEN binTreeStateTrue
        ELSE IF l = binTreeStateFalse /\ r = binTreeStateFalse THEN binTreeStateFalse
        ELSE binTreeStateUnknown
    ELSE IF nodeType = nodeTypeAnd THEN
        IF l = binTreeStateTrue /\ r = binTreeStateTrue THEN binTreeStateTrue
        ELSE IF l = binTreeStateFalse \/ r = binTreeStateFalse THEN binTreeStateFalse
        ELSE binTreeStateUnknown
    ELSE IF nodeType = nodeTypeNot THEN
        IF l = binTreeStateTrue THEN binTreeStateFalse
        ELSE IF l = binTreeStateFalse THEN binTreeStateTrue
        ELSE binTreeStateUnknown
    ELSE
        IF l = binTreeStateTrue THEN binTreeStateTrue
        ELSE IF l = binTreeStateFalse THEN binTreeStateFalse
        ELSE binTreeStateUnknown

\* checkNode's decision with the Or node's "both False" test written as "either".
checkNodeValueOrEither(nodeType, l, r) ==
    IF nodeType = nodeTypeOr THEN
        IF l = binTreeStateTrue \/ r = binTreeStateTrue THEN binTreeStateTrue
        ELSE IF l = binTreeStateFalse \/ r = binTreeStateFalse THEN binTreeStateFalse
        ELSE binTreeStateUnknown
    ELSE IF nodeType = nodeTypeNeor THEN
        IF l # binTreeStateUnknown /\ r # binTreeStateUnknown THEN
            IF l = binTreeStateTrue \/ r = binTreeStateTrue THEN binTreeStateTrue
            ELSE binTreeStateFalse
        ELSE binTreeStateUnknown
    ELSE IF nodeType = nodeTypeAnd THEN
        IF l = binTreeStateTrue /\ r = binTreeStateTrue THEN binTreeStateTrue
        ELSE IF l = binTreeStateFalse \/ r = binTreeStateFalse THEN binTreeStateFalse
        ELSE binTreeStateUnknown
    ELSE IF nodeType = nodeTypeNot THEN
        IF l = binTreeStateTrue THEN binTreeStateFalse
        ELSE IF l = binTreeStateFalse THEN binTreeStateTrue
        ELSE binTreeStateUnknown
    ELSE
        IF l = binTreeStateTrue THEN binTreeStateTrue
        ELSE IF l = binTreeStateFalse THEN binTreeStateFalse
        ELSE binTreeStateUnknown

\* checkNode's decision with the Not node passing its child's value on.
checkNodeValueNotAsLoop(nodeType, l, r) ==
    IF nodeType = nodeTypeOr THEN
        IF l = binTreeStateTrue \/ r = binTreeStateTrue THEN binTreeStateTrue
        ELSE IF l = binTreeStateFalse /\ r = binTreeStateFalse THEN binTreeStateFalse
        ELSE binTreeStateUnknown
    ELSE IF nodeType = nodeTypeNeor THEN
        IF l # binTreeStateUnknown /\ r # binTreeStateUnknown THEN
            IF l = binTreeStateTrue \/ r = binTreeStateTrue THEN binTreeStateTrue
            ELSE binTreeStateFalse
        ELSE binTreeStateUnknown
    ELSE IF nodeType = nodeTypeAnd THEN
        IF l = binTreeStateTrue /\ r = binTreeStateTrue THEN binTreeStateTrue
        ELSE IF l = binTreeStateFalse \/ r = binTreeStateFalse THEN binTreeStateFalse
        ELSE binTreeStateUnknown
    ELSE
        IF l = binTreeStateTrue THEN binTreeStateTrue
        ELSE IF l = binTreeStateFalse THEN binTreeStateFalse
        ELSE binTreeStateUnknown

\* The decision of checkNode for a node of type nodeType whose children are
\* in states l and r: the value to mark, binTreeStateUnknown for no mark.
checkNodeValue(nodeType, l, r) ==
    IF nodeType = nodeTypeOr THEN
        IF l = binTreeStateTrue \/ r = binTreeStateTrue THEN binTreeStateTrue
        ELSE IF l = binTreeStateFalse /\ r = binTreeStateFalse THEN binTreeStateFalse
        ELSE binTreeStateUnknown
    ELSE IF nodeType = nodeTypeNeor THEN
        IF l # binTreeStateUnknown /\ r # binTreeStateUnknown THEN
            IF l = binTreeStateTrue \/ r = binTreeStateTrue THEN binTreeStateTrue
            ELSE binTreeStateFalse
        ELSE binTreeStateUnknown
    ELSE IF nodeType = nodeTypeAnd THEN
        IF l = binTreeStateTrue /\ r = binTreeStateTrue THEN binTreeStateTrue
        ELSE IF l = binTreeStateFalse \/ r = binTreeStateFalse THEN binTreeStateFalse
        ELSE binTreeStateUnknown
    ELSE IF nodeType = nodeTypeNot THEN
        IF l = binTreeStateTrue THEN binTreeStateFalse
        ELSE IF l = binTreeStateFalse THEN binTreeStateTrue
        ELSE binTreeStateUnknown
    ELSE \* nodeTypeLoop
        IF l = binTreeStateTrue THEN binTreeStateTrue
        ELSE IF l = binTreeStateFalse THEN binTreeStateFalse
        ELSE binTreeStateUnknown

RECURSIVE MarkNode(_, _, _)
RECURSIVE checkNode(_, _)

checkNode(st, index) ==
    LET defNode == tree[index]
    IN IF defNode.NodeType = nodeTypeLeaf THEN [st EXCEPT !.panic = PanicCheckLeaf]
       ELSE IF defNode.NodeType \notin {nodeTypeOr, nodeTypeNeor, nodeTypeAnd,
                                        nodeTypeNot, nodeTypeLoop}
       THEN [st EXCEPT !.panic = PanicInvalidMode]
       ELSE LET l == st.data[defNode.Left]
                \* Not and Loop read the left child only
                r == IF binTreeNodeTypeHasRight(defNode.NodeType)
                     THEN st.data[defNode.Right] ELSE binTreeStateUnknown
                v == checkNodeValue(defNode.NodeType, l, r)
            IN IF v = binTreeStateUnknown THEN st
               ELSE MarkNode(st, index, v = binTreeStateTrue)

\* MarkNode with the "marked twice" test made after the assignment.
MarkNodeLateCheck(st, index, value) ==
    LET defNode == tree[index]
        d1 == [st.data EXCEPT ![index] = IF value THEN binTreeStateTrue
                                          ELSE binTreeStateFalse]
    IN IF st.data[index] # binTreeStateUnknown
       THEN [st EXCEPT !.data = d1, !.panic = PanicMarkedTwice]
       ELSE LET s1 == [st EXCEPT !.data = resolveRecursive(d1, index),
                                 !.marked = Append(@, index)]
            IN IF index = 0 THEN s1
               ELSE IF index = s1.stallIndex THEN s1
               ELSE checkNode(s1, defNode.ParentIdx)

\* MarkNode without the stop at the stall index.
MarkNodeNoStall(st, index, value) ==
    IF st.data[index] # binTreeStateUnknown
    THEN [st EXCEPT !.panic = PanicMarkedTwice]
    ELSE LET defNode == tree[index]
             d1 == [st.data EXCEPT ![index] = IF value THEN binTreeStateTrue
                                               ELSE binTreeStateFalse]
             s1 == [st EXCEPT !.data = resolveRecursive(d1, index),
                              !.marked = Append(@, index)]
         IN IF index = 0 THEN s1
            ELSE checkNode(s1, defNode.ParentIdx)

\* MarkNode without the check for parent satisfaction.
MarkNodeNoCheck(st, index, value) ==
    IF st.data[index] # binTreeStateUnknown
    THEN [st EXCEPT !.panic = PanicMarkedTwice]
    ELSE LET d1 == [st.data EXCEPT ![index] = IF value THEN binTreeStateTrue
                                               ELSE binTreeStateFalse]
         IN [st EXCEPT !.data = resolveRecursive(d1, index),
                       !.marked = Append(@, index)]

MarkNode(st, index, value) ==
    IF st.data[index] # binTreeStateUnknown
    THEN [st EXCEPT !.panic = PanicMarkedTwice]
    ELSE LET defNode == tree[index]
             isEarly == \/ /\ binTreeNodeTypeHasLeft(defNode.NodeType)
                           /\ st.data[defNode.Left] = binTreeStateUnknown
                        \/ /\ binTreeNodeTypeHasRight(defNode.NodeType)
                           /\ st.data[defNode.Right] = binTreeStateUnknown
             d1 == [st.data EXCEPT ![index] = IF value THEN binTreeStateTrue
                                               ELSE binTreeStateFalse]
             s1 == [st EXCEPT !.data = resolveRecursive(d1, index),
                              !.marked = Append(@, index),
                              !.early = IF isEarly THEN @ \cup {index} ELSE @]
         IN IF index = 0 THEN s1
            ELSE IF index = s1.stallIndex THEN s1
            ELSE checkNode(s1, defNode.ParentIdx)

RECURSIVE ResolveLoop(_, _)

\* Resolve's loop leaving after the first node it marks.
ResolveLoopBreakEarly(st, i) ==
    IF i < 0 THEN st
    ELSE IF st.data[i] = binTreeStateUnknown THEN MarkNode(st, i, FALSE)
    ELSE ResolveLoop(st, i - 1)

\* Resolve's loop marking the unresolved nodes true.
ResolveLoopTrue(st, i) ==
    IF i < 0 THEN st
    ELSE LET s1 == IF st.data[i] = binTreeStateUnknown
                   THEN MarkNode(st, i, TRUE) ELSE st
         IN IF s1.panic # NoPanic THEN s1
            ELSE IF s1.data[0] # binTreeStateUnknown THEN s1
            ELSE ResolveLoop(s1, i - 1)

ResolveLoop(st, i) ==
    IF i < 0 THEN st
    ELSE LET s1 == IF st.data[i] = binTreeStateUnknown
                   THEN MarkNode(st, i, FALSE) ELSE st
         IN IF s1.panic # NoPanic THEN s1
            ELSE IF s1.data[0] # binTreeStateUnknown THEN s1
            ELSE ResolveLoop(s1, i - 1)

Resolve(st) ==
    IF IsResolved(st, 0) THEN st
    ELSE ResolveLoop(st, NumNodes(tree) - 1)

\* Reset leaving the stall index as it is.
ResetKeepsStall(st) ==
    [st EXCEPT !.data = [i \in DOMAIN st.data |-> binTreeStateUnknown]]

\* Reset clearing the root and the stall index only.
ResetRootOnly(st) ==
    [st EXCEPT !.stallIndex = 0,
               !.data = [st.data EXCEPT ![0] = binTreeStateUnknown]]

Reset(st) ==
    [st EXCEPT !.stallIndex = 0,
               !.data = [i \in DOMAIN st.data |-> binTreeStateUnknown]]

RECURSIVE resetNodeRecursive(_, _)

\* resetNodeRecursive without the descent into the right child.
resetNodeRecursiveLeftOnly(d, index) ==
    LET defNode == tree[index]
        d0 == [d EXCEPT ![index] = binTreeStateUnknown]
    IN IF binTreeNodeTypeHasLeft(defNode.NodeType)
       THEN resetNodeRecursive(d0, defNode.Left) ELSE d0

resetNodeRecursive(d, index) ==
    LET defNode == tree[index]
        d0 == [d EXCEPT ![index] = binTreeStateUnknown]
        d1 == IF binTreeNodeTypeHasLeft(defNode.NodeType)
              THEN resetNodeRecursive(d0, defNode.Left) ELSE d0
        d2 == IF binTreeNodeTypeHasRight(defNode.NodeType)
              THEN resetNodeRecursive(d1, defNode.Right) ELSE d1
    IN d2

ResetNode(st, index) == [st EXCEPT !.data = resetNodeRecursive(st.data, index)]

\* SetStallIndex returning the index it installs.
SetStallIndexReturnsNew(st, index) ==
    [st EXCEPT !.stallIndex = index, !.ret = index]

SetStallIndex(st, index) ==
    LET oldStallIndex == st.stallIndex
    IN [st EXCEPT !.stallIndex = index, !.ret = oldStallIndex]

(***************************************************************************)
(* Two binTreeState values on one binTree.  The tree and the data slices   *)
(* are objects a state refers to: heap is the sequence of the data slices  *)
(* allocated so far, and a state is [tree, data, stallIndex] with tree the *)
(* pointer to the binTree and data the position of its slice in heap.      *)
(***************************************************************************)
\* NewState: make() allocates a new slice, all elements binTreeStateUnknown.
NewStateAlloc(heap, t) ==
    [heap |-> Append(heap, NewState(t).data),
     state |-> [tree |-> "tree", data |-> Len(heap) + 1,
                stallIndex |-> NewState(t).stallIndex]]

\* The fields of state s as the operations see them on entry.
Deref(heap, s) == Begin(heap[s.data], s.stallIndex)

\* A method called on state s came back with the fields of st: what it wrote
\* went to the slice of s and to the stallIndex of s.
WriteBack(heap, s, st) ==
    [heap |-> [heap EXCEPT ![s.data] = st.data],
     state |-> [s EXCEPT !.stallIndex = st.stallIndex],
     panic |-> st.panic]

\* CopyFrom making the state share the slice of ostate.
CopyFromAlias(heap, s, ostate) ==
    IF s.tree # ostate.tree
    THEN [heap |-> heap, state |-> s, panic |-> "cannot copy from different tree"]
    ELSE [heap |-> heap, state |-> [s EXCEPT !.data = ostate.data], panic |-> NoPanic]

\* CopyFrom taking the stall index of ostate along.
CopyFromWithStall(heap, s, ostate) ==
    IF s.tree # ostate.tree
    THEN [heap |-> heap, state |-> s, panic |-> "cannot copy from different tree"]
    ELSE [heap |-> [heap EXCEPT ![s.data] =
                        [i \in DOMAIN heap[s.data] |-> heap[ostate.data][i]]],
          state |-> [s EXCEPT !.stallIndex = ostate.stallIndex], panic |-> NoPanic]

\* CopyFrom: element by element into the slice of the state.
CopyFrom(heap, s, ostate) ==
    IF s.tree # ostate.tree
    THEN [heap |-> heap, state |-> s, panic |-> "cannot copy from different tree"]
    ELSE [heap |-> [heap EXCEPT ![s.data] =
                        [i \in DOMAIN heap[s.data] |-> heap[ostate.data][i]]],
          state |-> s, panic |-> NoPanic]

(***************************************************************************)
(* The parsed filter expression (filterExprParser.go) and its lowering to  *)
(* the expression IR.  A pointer field that is not set is Nil, a pointer to *)
(* a bool is BoolPtr(b).  A lowering returns [expr, err], err = Nil for a  *)
(* nil error and Error(msg) otherwise.  An IR node is a record whose kind  *)
(* is the name of its Go type.                                             *)
(***************************************************************************)
Nil == [kind |-> "nil"]

BoolPtr(b) == [kind |-> "bool", value |-> b]

Error(msg) == [kind |-> "error", msg |-> msg]

Returns(expr, err) == [expr |-> expr, err |-> err]

EqualsExpr(lhs, rhs) == [kind |-> "EqualsExpr", Lhs |-> lhs, Rhs |-> rhs]
NotEqualsExpr(lhs, rhs) == [kind |-> "NotEqualsExpr", Lhs |-> lhs, Rhs |-> rhs]
GreaterThanExpr(lhs, rhs) == [kind |-> "GreaterThanExpr", Lhs |-> lhs, Rhs |-> rhs]
GreaterEqualsExpr(lhs, rhs) == [kind |-> "GreaterEqualsExpr", Lhs |-> lhs, Rhs |-> rhs]
LessThanExpr(lhs, rhs) == [kind |-> "LessThanExpr", Lhs |-> lhs, Rhs |-> rhs]
LessEqualsExpr(lhs, rhs) == [kind |-> "LessEqualsExpr", Lhs |-> lhs, Rhs |-> rhs]
ExistsExpr(subExpr) == [kind |-> "ExistsExpr", SubExpr |-> subExpr]
NotExistsExpr(subExpr) == [kind |-> "NotExistsExpr", SubExpr |-> subExpr]
NotExpr(subExpr) == [kind |-> "NotExpr", SubExpr |-> subExpr]
ValueExpr(value) == [kind |-> "ValueExpr", Value |-> value]
OrExpr(subs) == [kind |-> "OrExpr", subs |-> subs]
AndExpr(subs) == [kind |-> "AndExpr", subs |-> subs]

\* FEOpChar: the parser sets the field of the character it matched.
FEOpChar(char) ==
    [Not |-> IF char = "!" THEN BoolPtr(TRUE) ELSE Nil,
     Equal |-> IF char = "=" THEN BoolPtr(TRUE) ELSE Nil,
     LessThan |-> IF char = "<" THEN BoolPtr(TRUE) ELSE Nil,
     GreaterThan |-> IF char = ">" THEN BoolPtr(TRUE) ELSE Nil]

\* FECompareOp as parsed from one or two operator characters.
FECompareOp(chars) ==
    [OpChars0 |-> FEOpChar(chars[1]),
     OpChars1 |-> IF Len(chars) > 1 THEN FEOpChar(chars[2]) ELSE Nil]

\* IsEqual without the test that a lone "=" has no second character.
IsEqualAnySecond(feo) ==
    LET singleEq == feo.OpChars0 # Nil /\ feo.OpChars0.Equal # Nil
        doubleEq == feo.OpChars0 # Nil /\ feo.OpChars0.Equal # Nil
                    /\ feo.OpChars1 # Nil /\ feo.OpChars1.Equal # Nil
    IN singleEq \/ doubleEq

IsEqual(feo) ==
    LET singleEq == feo.OpChars0 # Nil /\ feo.OpChars0.Equal # Nil /\ feo.OpChars1 = Nil
        doubleEq == feo.OpChars0 # Nil /\ feo.OpChars0.Equal # Nil
                    /\ feo.OpChars1 # Nil /\ feo.OpChars1.Equal # Nil
    IN singleEq \/ doubleEq

IsNotEqual(feo) ==
    LET notEqual0 == feo.OpChars0 # Nil /\ feo.OpChars0.Not # Nil
                     /\ feo.OpChars1 # Nil /\ feo.OpChars1.Equal # Nil
        notEqual1 == feo.OpChars0 # Nil /\ feo.OpChars0.LessThan # Nil
                     /\ feo.OpChars1 # Nil /\ feo.OpChars1.GreaterThan # Nil
    IN notEqual0 \/ notEqual1

IsGreaterThan(feo) ==
    feo.OpChars0 # Nil /\ feo.OpChars0.GreaterThan # Nil /\ feo.OpChars1 = Nil

IsGreaterThanOrEqualTo(feo) ==
    feo.OpChars0 # Nil /\ feo.OpChars0.GreaterThan # Nil
    /\ feo.OpChars1 # Nil /\ feo.OpChars1.Equal # Nil

IsLessThan(feo) ==
    feo.OpChars0 # Nil /\ feo.OpChars0.LessThan # Nil /\ feo.OpChars1 = Nil

IsLessThanOrEqualTo(feo) ==
    feo.OpChars0 # Nil /\ feo.OpChars0.LessThan # Nil
    /\ feo.OpChars1 # Nil /\ feo.OpChars1.Equal # Nil

\* FECompareOp.OutputExpression
FECompareOp_OutputExpression(f, lhs, rhs) ==
    IF IsEqual(f) THEN Returns(EqualsExpr(lhs, rhs), Nil)
    ELSE IF IsNotEqual(f) THEN Returns(NotEqualsExpr(lhs, rhs), Nil)
    ELSE IF IsGreaterThan(f) THEN Returns(GreaterThanExpr(lhs, rhs), Nil)
    ELSE IF IsGreaterThanOrEqualTo(f) THEN Returns(GreaterEqualsExpr(lhs, rhs), Nil)
    ELSE IF IsLessThan(f) THEN Returns(LessThanExpr(lhs, rhs), Nil)
    ELSE IF IsLessThanOrEqualTo(f) THEN Returns(LessEqualsExpr(lhs, rhs), Nil)
    ELSE Returns(Nil, Error("Invalid FECompareOp"))

\* FECheckOp: Not, Null and Missing are pointers to bool.
isNot(feco) == feco.Not # Nil /\ feco.Not.value = TRUE

isMissingInternal(feco) == feco.Missing # Nil /\ feco.Missing.value = TRUE

IsMissing(feco) == ~isNot(feco) /\ isMissingInternal(feco)

IsNotMissing(feco) == isNot(feco) /\ isMissingInternal(feco)

isNullInternal(feco) == feco.Null # Nil /\ feco.Null.value = TRUE

\* IsNull without the negation of isNot.
IsNullIgnoresNot(feco) == isNullInternal(feco)

IsNull(feco) == ~isNot(feco) /\ isNullInternal(feco)

IsNotNull(feco) == isNot(feco) /\ isNullInternal(feco)

\* FECheckOp.OutputExpression
FECheckOp_OutputExpression(f, subExpr) ==
    IF IsNotMissing(f) THEN Returns(ExistsExpr(subExpr), Nil)
    ELSE IF IsMissing(f) THEN Returns(NotExistsExpr(subExpr), Nil)
    ELSE IF IsNull(f) THEN Returns(EqualsExpr(subExpr, ValueExpr(Nil)), Nil)
    ELSE IF IsNotNull(f) THEN Returns(NotExpr(EqualsExpr(subExpr, ValueExpr(Nil))), Nil)
    ELSE Returns(Nil, Error("Invalid FECheckOp"))

\* FEOperand.OutputExpression.  BooleanExpr, LHS and RHS, when set, stand for
\* what their own OutputExpression returns.
FEOperand_OutputExpression(f) ==
    IF f.BooleanExpr # Nil THEN f.BooleanExpr
    ELSE IF f.LHS # Nil THEN
        IF f.LHS.err # Nil THEN Returns(Nil, f.LHS.err)
        ELSE IF f.CheckOp # Nil THEN FECheckOp_OutputExpression(f.CheckOp, f.LHS.expr)
        ELSE IF f.Op # Nil /\ f.RHS # Nil THEN
            IF f.RHS.err # Nil THEN Returns(Nil, f.RHS.err)
            ELSE FECompareOp_OutputExpression(f.Op, f.LHS.expr, f.RHS.expr)
        ELSE Returns(Nil, Error("Invalid FEOperand"))
    ELSE Returns(Nil, Error("Invalid FEOperand"))

ErrorMalformedParenthesis == Error("MalformedParenthesis")

RECURSIVE SumSeq(_)
SumSeq(counts) ==
    IF counts = <<>> THEN 0 ELSE Head(counts) + SumSeq(Tail(counts))

\* FECondition is [Not, Operand]; FEAndCondition is [OpenParens,
\* OrConditions, CloseParens], OpenParens and CloseParens being the lengths
\* of the slices; FilterExpression is [AndConditions, SubFilterExpr].
RECURSIVE FECondition_GetTotalOpenParens(_)
FECondition_GetTotalOpenParens(f) ==
    IF f.Not # Nil THEN FECondition_GetTotalOpenParens(f.Not) ELSE 0

RECURSIVE FECondition_GetTotalCloseParens(_)
FECondition_GetTotalCloseParens(f) ==
    IF f.Not # Nil THEN FECondition_GetTotalCloseParens(f.Not) ELSE 0

FEAndCondition_GetTotalOpenParens(f) ==
    f.OpenParens
    + SumSeq([i \in 1..Len(f.OrConditions) |->
                 FECondition_GetTotalOpenParens(f.OrConditions[i])])

FEAndCondition_GetTotalCloseParens(f) ==
    f.CloseParens
    + SumSeq([i \in 1..Len(f.OrConditions) |->
                 FECondition_GetTotalCloseParens(f.OrConditions[i])])

RECURSIVE GetTotalOpenParens(_)
GetTotalOpenParens(f) ==
    SumSeq([i \in 1..Len(f.AndConditions) |->
               FEAndCondition_GetTotalOpenParens(f.AndConditions[i])])
    + SumSeq([i \in 1..Len(f.SubFilterExpr) |-> GetTotalOpenParens(f.SubFilterExpr[i])])

RECURSIVE GetTotalCloseParens(_)
GetTotalCloseParens(f) ==
    SumSeq([i \in 1..Len(f.AndConditions) |->
               FEAndCondition_GetTotalCloseParens(f.AndConditions[i])])
    + SumSeq([i \in 1..Len(f.SubFilterExpr) |-> GetTotalCloseParens(f.SubFilterExpr[i])])

\* FECondition.OutputExpression
RECURSIVE FECondition_OutputExpression(_)
FECondition_OutputExpression(f) ==
    IF f.Not # Nil
    THEN LET subNot == FECondition_OutputExpression(f.Not)
         IN Returns(NotExpr(subNot.expr), subNot.err)
    ELSE IF f.Operand # Nil THEN FEOperand_OutputExpression(f.Operand)
    ELSE Returns(Nil, Error("Invalid FECondition"))

\* FEAndCondition.OutputExpression: the loop from condition i on, outExpr
\* holding the conditions lowered so far.
RECURSIVE AndConditionLoop(_, _, _)
AndConditionLoop(f, i, outExpr) ==
    IF i > Len(f.OrConditions) THEN Returns(AndExpr(outExpr), Nil)
    ELSE LET r == FECondition_OutputExpression(f.OrConditions[i])
         IN IF r.err # Nil THEN Returns(AndExpr(outExpr), r.err)
            ELSE AndConditionLoop(f, i + 1, Append(outExpr, r.expr))

\* FEAndCondition.OutputExpression giving an AndCondition written in
\* parentheses a group of its own.
FEAndCondition_OutputExpressionGrouped(f) ==
    LET r == AndConditionLoop(f, 1, <<>>)
    IN IF f.OpenParens > 0 THEN Returns(OrExpr(<<r.expr>>), r.err) ELSE r

FEAndCondition_OutputExpression(f) == AndConditionLoop(f, 1, <<>>)

\* FilterExpression.OutputExpression: its first loop, from AndCondition i on.
RECURSIVE OrLoop(_, _, _)
OrLoop(f, i, outExpr) ==
    IF i > Len(f.AndConditions) THEN Returns(OrExpr(outExpr), Nil)
    ELSE LET r == FEAndCondition_OutputExpression(f.AndConditions[i])
         IN IF r.err # Nil THEN Returns(OrExpr(outExpr), r.err)
            ELSE OrLoop(f, i + 1, Append(outExpr, r.expr))

RECURSIVE OutputExpression(_)
RECURSIVE SubFilterLoop(_, _, _)

\* The second loop, from sub-expression i on.
SubFilterLoop(f, i, combinedExpr) ==
    IF i > Len(f.SubFilterExpr) THEN Returns(AndExpr(combinedExpr), Nil)
    ELSE LET r == OutputExpression(f.SubFilterExpr[i])
         IN IF r.err # Nil THEN Returns(AndExpr(combinedExpr), r.err)
            ELSE SubFilterLoop(f, i + 1, Append(combinedExpr, r.expr))

\* FilterExpression.OutputExpression
OutputExpression(f) ==
    IF GetTotalOpenParens(f) # GetTotalCloseParens(f)
    THEN Returns(OrExpr(<<>>), ErrorMalformedParenthesis)
    ELSE LET out == OrLoop(f, 1, <<>>)
         IN IF out.err # Nil THEN out
            ELSE IF Len(f.SubFilterExpr) > 0
                 THEN SubFilterLoop(f, 1, <<out.expr>>)
                 ELSE out

(***************************************************************************)
(* Calls on the state.                                                     *)
(***************************************************************************)
\* The record of a call: its name, its argument (for MarkNode the state that
\* the node it was called on had on entry, for ResetNode and SetStallIndex
\* the index, 0 otherwise) and its outcome.  The node an accepted MarkNode
\* call was made on is the first entry of marked.
Outcome(op, arg, st) ==
    [op |-> op, arg |-> arg,
     panic |-> st.panic, marked |-> st.marked, early |-> st.early]

Apply(op, arg, st) ==
    /\ data' = st.data
    /\ stallIndex' = st.stallIndex
    /\ call' = Outcome(op, arg, st)
    /\ UNCHANGED tree

\* A state newly constructed on one of the trees.
Fresh(trees) ==
    /\ tree \in trees
    /\ data = NewState(tree).data
    /\ stallIndex = NewState(tree).stallIndex
    /\ call = Outcome("NewState", 0, Begin(data, stallIndex))

NoCaller == [kind |-> "any"]

Init ==
    /\ Fresh(ValidTrees(MaxNodes))
    /\ caller = NoCaller

\* MarkNode(index, value) on any node, Unknown or not.
DoMarkNode ==
    \E index \in Nodes, value \in BOOLEAN :
        /\ Apply("MarkNode", data[index], MarkNode(Begin(data, stallIndex), index, value))
        /\ UNCHANGED caller

\* The evaluator's use of MarkNode: a leaf that is still Unknown is decided.
DoMarkLeaf ==
    \E index \in Leaves, value \in BOOLEAN :
        /\ data[index] = binTreeStateUnknown
        /\ Apply("MarkNode", data[index], MarkNode(Begin(data, stallIndex), index, value))
        /\ UNCHANGED caller

DoResolve ==
    /\ Apply("Resolve", 0, Resolve(Begin(data, stallIndex)))
    /\ UNCHANGED caller

DoReset ==
    /\ Apply("Reset", 0, Reset(Begin(data, stallIndex)))
    /\ UNCHANGED caller

DoResetNode ==
    \E index \in Nodes :
        /\ Apply("ResetNode", index, ResetNode(Begin(data, stallIndex), index))
        /\ UNCHANGED caller

DoSetStallIndex ==
    \E index \in Nodes :
        /\ Apply("SetStallIndex", index, SetStallIndex(Begin(data, stallIndex), index))
        /\ UNCHANGED caller

Next == DoMarkNode \/ DoResolve \/ DoSetStallIndex

Spec == Init /\ [][Next]_vars

\* MarkNode(index, value) on a node that is still Unknown.
DoMarkUnknown ==
    \E index \in Nodes, value \in BOOLEAN :
        /\ data[index] = binTreeStateUnknown
        /\ Apply("MarkNode", data[index], MarkNode(Begin(data, stallIndex), index, value))
        /\ UNCHANGED caller

\* The evaluator feeds leaves and nothing else.
FeedInit ==
    /\ Fresh(ValidTrees(MaxFeedNodes))
    /\ caller = NoCaller

FeedNext == DoMarkLeaf

FeedSpec == FeedInit /\ [][FeedNext]_vars

\* The evaluator feeds leaves and finalizes with Resolve.
FinalNext == DoMarkLeaf \/ DoResolve

FinalSpec == FeedInit /\ [][FinalNext]_vars

\* The evaluator has a value for every leaf and feeds the leaves in some
\* order, skipping a leaf that is no longer Unknown when its turn comes, then
\* finalizes with Resolve.
FeedOrders(S) ==
    {p \in [1..Cardinality(S) -> S] : \A i, j \in DOMAIN p : p[i] = p[j] => i = j}

PermInit ==
    /\ Fresh(ValidTrees(MaxFeedNodes))
    /\ \E val \in [Leaves -> BOOLEAN], order \in FeedOrders(Leaves) :
           caller = [kind |-> "feeder", val |-> val, order |-> order,
                     pos |-> 1, done |-> FALSE]

FeedLeaf(st, leaf, value) ==
    IF st.data[leaf] = binTreeStateUnknown THEN MarkNode(st, leaf, value) ELSE st

PermFeed ==
    /\ caller.pos <= Len(caller.order)
    /\ LET leaf == caller.order[caller.pos]
       IN Apply(IF data[leaf] = binTreeStateUnknown THEN "MarkNode" ELSE "skip",
                data[leaf], FeedLeaf(Begin(data, stallIndex), leaf, caller.val[leaf]))
    /\ caller' = [caller EXCEPT !.pos = @ + 1]

PermResolve ==
    /\ caller.pos > Len(caller.order)
    /\ ~caller.done
    /\ Apply("Resolve", 0, Resolve(Begin(data, stallIndex)))
    /\ caller' = [caller EXCEPT !.done = TRUE]

PermNext == PermFeed \/ PermResolve

PermSpec == PermInit /\ [][PermNext]_vars

\* The state is driven through marks, stall indexes, ResetNode and Reset, and
\* next to it runs a twin: a state newly constructed on the same tree at the
\* last Reset (at the start, before any Reset) that is given the same calls.
TwinInit ==
    /\ Fresh(ValidTrees(MaxTwinNodes))
    /\ caller = [kind |-> "twin", twin |-> NewState(tree), afterReset |-> FALSE]

TwinBegin == Begin(caller.twin.data, caller.twin.stallIndex)

TwinAfter(st) == [caller EXCEPT !.twin = [data |-> st.data, stallIndex |-> st.stallIndex]]

TwinMark ==
    \E index \in Leaves, value \in BOOLEAN :
        /\ data[index] = binTreeStateUnknown
        /\ Apply("MarkNode", data[index], MarkNode(Begin(data, stallIndex), index, value))
        /\ caller' = TwinAfter(IF caller.twin.data[index] = binTreeStateUnknown
                               THEN MarkNode(TwinBegin, index, value) ELSE TwinBegin)

TwinSetStallIndex ==
    \E index \in Nodes :
        /\ Apply("SetStallIndex", index, SetStallIndex(Begin(data, stallIndex), index))
        /\ caller' = TwinAfter(SetStallIndex(TwinBegin, index))

TwinResetNode ==
    \E index \in Nodes :
        /\ Apply("ResetNode", index, ResetNode(Begin(data, stallIndex), index))
        /\ caller' = TwinAfter(ResetNode(TwinBegin, index))

TwinReset ==
    /\ Apply("Reset", 0, Reset(Begin(data, stallIndex)))
    /\ caller' = [caller EXCEPT !.twin = NewState(tree), !.afterReset = TRUE]

TwinNext == TwinMark \/ TwinSetStallIndex \/ TwinResetNode \/ TwinReset

TwinSpec == TwinInit /\ [][TwinNext]_vars

\* The caller's loop over the elements of an array: after any feeding of
\* leaves outside the loop, under any stall index, it installs the stall at
\* the Loop node caller.loop and keeps
\* the stall index it replaces, feeds Unknown leaves of the loop body for each
\* element, calls ResetNode between two elements, and puts the old stall
\* index back at the end.  caller.resets is the node it calls ResetNode on:
\* the child of the Loop node ("child") or the Loop node itself ("loop").
LoopNodes(t) == {i \in DOMAIN t : t[i].NodeType = nodeTypeLoop}

LoopInit ==
    /\ Fresh({t \in ValidTrees(MaxNodes) : LoopNodes(t) # {}})
    /\ \E resets \in {"child", "loop"}, loop \in LoopNodes(tree) :
           caller = [kind |-> "loop", pc |-> "before", resets |-> resets,
                     loop |-> loop, old |-> 0, again |-> FALSE]

LoopBeforeMark ==
    /\ caller.pc = "before"
    /\ \E index \in Leaves \ Subtree(caller.loop), value \in BOOLEAN :
           /\ data[index] = binTreeStateUnknown
           /\ Apply("MarkNode", data[index],
                    MarkNode(Begin(data, stallIndex), index, value))
    /\ UNCHANGED caller

LoopBeforeStall ==
    /\ caller.pc = "before"
    /\ \E index \in Nodes :
           Apply("SetStallIndex", index, SetStallIndex(Begin(data, stallIndex), index))
    /\ UNCHANGED caller

LoopEnter ==
    /\ caller.pc = "before"
    /\ Apply("SetStallIndex", caller.loop,
             SetStallIndex(Begin(data, stallIndex), caller.loop))
    /\ caller' = [caller EXCEPT !.pc = "body", !.old = stallIndex]

LoopMark ==
    /\ caller.pc = "body"
    /\ \E index \in Leaves \cap Subtree(caller.loop), value \in BOOLEAN :
           /\ data[index] = binTreeStateUnknown
           /\ Apply("MarkNode", data[index],
                    MarkNode(Begin(data, stallIndex), index, value))
    /\ UNCHANGED caller

LoopNextElement ==
    /\ caller.pc = "body"
    /\ LET index == IF caller.resets = "child" THEN tree[caller.loop].Left
                    ELSE caller.loop
       IN Apply("ResetNode", index, ResetNode(Begin(data, stallIndex), index))
    /\ caller' = [caller EXCEPT !.again = TRUE]

LoopExit ==
    /\ caller.pc = "body"
    /\ Apply("SetStallIndex", caller.old,
             SetStallIndex(Begin(data, stallIndex), caller.old))
    /\ caller' = [caller EXCEPT !.pc = "done"]

LoopNext ==
    \/ LoopBeforeMark
    \/ LoopBeforeStall
    \/ LoopEnter
    \/ LoopMark
    \/ LoopNextElement
    \/ LoopExit

LoopSpec == LoopInit /\ [][LoopNext]_vars

\* Leaves are fed under any stall index, and Resolve finalizes.
StallNext == DoMarkLeaf \/ DoSetStallIndex \/ DoResolve

StallSpec == Init /\ [][StallNext]_vars

\* Any caller of the state: MarkNode on a node that is still Unknown, leaf or
\* not, SetStallIndex, ResetNode and Reset on any node, and Resolve.  A panic
\* is fatal: no call follows one.
Running == call.panic = NoPanic

ResetInit ==
    /\ Fresh(ValidTrees(MaxResetNodes))
    /\ caller = NoCaller

ResetMark == Running /\ DoMarkUnknown

ResetSetStallIndex == Running /\ DoSetStallIndex

ResetResetNode == Running /\ DoResetNode

ResetReset == Running /\ DoReset

ResetResolve == Running /\ DoResolve

ResetNext ==
    \/ ResetMark
    \/ ResetSetStallIndex
    \/ ResetResetNode
    \/ ResetReset
    \/ ResetResolve

ResetSpec == ResetInit /\ [][ResetNext]_vars

\* The same caller without ResetNode.
ClosedInit ==
    /\ Fresh(ValidTrees(MaxClosedNodes))
    /\ caller = NoCaller

ClosedNext == DoMarkUnknown \/ DoSetStallIndex \/ DoReset \/ DoResolve

ClosedSpec == ClosedInit /\ [][ClosedNext]_vars

\* The evaluator feeding leaves under stall indexes and finalizing with
\* Resolve, with the caller remembering whether it ever installed a stall at
\* a node other than the root.
ForcedInit ==
    /\ Fresh(ValidTrees(MaxForcedNodes))
    /\ caller = [kind |-> "stalls", stalled |-> FALSE]

ForcedSetStallIndex ==
    \E index \in Nodes :
        /\ Apply("SetStallIndex", index, SetStallIndex(Begin(data, stallIndex), index))
        /\ caller' = [caller EXCEPT !.stalled = @ \/ index # 0]

ForcedNext == DoMarkLeaf \/ ForcedSetStallIndex \/ DoResolve

ForcedSpec == ForcedInit /\ [][ForcedNext]_vars

\* A caller opens and closes nested stall scopes around the feeding of leaves:
\* on entry it installs a stall index and saves what SetStallIndex returned,
\* on exit it hands the value saved last back to SetStallIndex.  caller.saved
\* is its stack of saved values; caller.before records the stall index that
\* was in force before each entry.
StackInit ==
    /\ Fresh(ValidTrees(MaxStackNodes))
    /\ caller = [kind |-> "stack", saved |-> <<>>, before |-> <<>>]

StackEnter ==
    /\ Len(caller.saved) < MaxStackDepth
    /\ \E index \in Nodes :
           LET st == SetStallIndex(Begin(data, stallIndex), index)
           IN /\ Apply("SetStallIndex", index, st)
              /\ caller' = [caller EXCEPT !.saved = Append(@, st.ret),
                                          !.before = Append(@, stallIndex)]

StackLeave ==
    /\ Len(caller.saved) > 0
    /\ LET old == caller.saved[Len(caller.saved)]
       IN Apply("SetStallIndex", old, SetStallIndex(Begin(data, stallIndex), old))
    /\ caller' = [caller EXCEPT !.saved = SubSeq(@, 1, Len(@) - 1),
                                !.before = SubSeq(@, 1, Len(@) - 1)]

StackNext == DoMarkLeaf \/ StackEnter \/ StackLeave

StackSpec == StackInit /\ [][StackNext]_vars

\* Two evaluations run on one tree, each on a state of its own made by
\* NewState, their calls interleaved in any order.  caller.heap and
\* caller.state hold the two states; caller.alone[k] is what state k is when
\* its own calls are run with no other state around.  data and stallIndex
\* show state 1, and call.arg is the state the last call was made on.
PairInit ==
    /\ tree \in ValidTrees(MaxPairNodes)
    /\ LET first == NewStateAlloc(<<>>, tree)
           second == NewStateAlloc(first.heap, tree)
       IN /\ caller = [kind |-> "pair", heap |-> second.heap,
                       state |-> <<first.state, second.state>>,
                       alone |-> <<NewState(tree), NewState(tree)>>]
          /\ data = second.heap[first.state.data]
          /\ stallIndex = first.state.stallIndex
    /\ call = Outcome("NewState", 0, Begin(data, stallIndex))

\* State k of the pair, and state k run alone, as the operations see them.
PairBegin(k) == Deref(caller.heap, caller.state[k])
AloneBegin(k) == Begin(caller.alone[k].data, caller.alone[k].stallIndex)

\* The step of the pair for a call on state k that came back with after
\* ([heap, state, panic]) and, run alone, with the fields of aloneAfter.  The
\* record of the call keeps the state it was made on and its panic.
PairStep(k, after, aloneAfter) ==
    /\ caller' = [caller EXCEPT
                     !.heap = after.heap,
                     !.state[k] = after.state,
                     !.alone[k] = [data |-> aloneAfter.data,
                                   stallIndex |-> aloneAfter.stallIndex]]
    /\ data' = after.heap[IF k = 1 THEN after.state.data ELSE caller.state[1].data]
    /\ stallIndex' = IF k = 1 THEN after.state.stallIndex ELSE stallIndex
    /\ call' = [op |-> "call", arg |-> k, panic |-> after.panic,
                marked |-> <<>>, early |-> {}]
    /\ UNCHANGED tree

PairMarkNode ==
    \E k \in 1..2, index \in Leaves, value \in BOOLEAN :
        /\ PairBegin(k).data[index] = binTreeStateUnknown
        /\ AloneBegin(k).data[index] = binTreeStateUnknown
        /\ PairStep(k, WriteBack(caller.heap, caller.state[k],
                              MarkNode(PairBegin(k), index, value)),
                    MarkNode(AloneBegin(k), index, value))

PairResolve ==
    \E k \in 1..2 :
        PairStep(k, WriteBack(caller.heap, caller.state[k], Resolve(PairBegin(k))),
                 Resolve(AloneBegin(k)))

PairReset ==
    \E k \in 1..2 :
        PairStep(k, WriteBack(caller.heap, caller.state[k], Reset(PairBegin(k))),
                 Reset(AloneBegin(k)))

PairResetNode ==
    \E k \in 1..2, index \in Nodes :
        PairStep(k, WriteBack(caller.heap, caller.state[k], ResetNode(PairBegin(k), index)),
                 ResetNode(AloneBegin(k), index))

PairSetStallIndex ==
    \E k \in 1..2, index \in Nodes :
        PairStep(k, WriteBack(caller.heap, caller.state[k],
                           SetStallIndex(PairBegin(k), index)),
                 SetStallIndex(AloneBegin(k), index))

\* State k copies from the other state; run alone, it is handed the values
\* the other state has when run alone.
PairCopyFrom ==
    \E k \in 1..2 :
        PairStep(k, CopyFrom(caller.heap, caller.state[k], caller.state[3 - k]),
                 [AloneBegin(k) EXCEPT !.data = caller.alone[3 - k].data])

PairNext ==
    \/ PairMarkNode
    \/ PairResolve
    \/ PairReset
    \/ PairResetNode
    \/ PairSetStallIndex
    \/ PairCopyFrom

PairSpec == PairInit /\ [][PairNext]_vars

\* Two states a caller copies between.  The second state is made on the tree
\* of the first or on a second binTree object built with the same nodes:
\* CopyFrom compares the two tree pointers.  caller.heap and caller.state
\* hold the two states, data and stallIndex show state 1, call.arg is the
\* state the last call was made on; of a CopyFrom call, caller.src is the
\* state copied from and caller.before the node states the destination held.  A panic
\* is fatal: no call follows one.
CopyInit ==
    /\ tree \in ValidTrees(MaxCopyNodes)
    /\ \E other \in {"tree", "tree2"} :
           LET first == NewStateAlloc(<<>>, tree)
               second == NewStateAlloc(first.heap, tree)
           IN /\ caller = [kind |-> "copy", heap |-> second.heap,
                           state |-> <<first.state,
                                       [second.state EXCEPT !.tree = other]>>,
                           src |-> 0, before |-> <<>>]
              /\ data = second.heap[first.state.data]
              /\ stallIndex = first.state.stallIndex
    /\ call = Outcome("NewState", 0, Begin(data, stallIndex))

CopyBegin(k) == Deref(caller.heap, caller.state[k])

\* The step for a call op on state k that came back with after ([heap,
\* state, panic]).
CopyStep(op, k, src, after) ==
    /\ call.panic = NoPanic
    /\ caller' = [caller EXCEPT
                     !.heap = after.heap,
                     !.state[k] = after.state,
                     !.src = src,
                     !.before = IF src = 0 THEN <<>> ELSE CopyBegin(k).data]
    /\ data' = after.heap[IF k = 1 THEN after.state.data ELSE caller.state[1].data]
    /\ stallIndex' = IF k = 1 THEN after.state.stallIndex ELSE stallIndex
    /\ call' = [op |-> op, arg |-> k, panic |-> after.panic,
                marked |-> <<>>, early |-> {}]
    /\ UNCHANGED tree

\* The evaluator decides a leaf of state k that is still Unknown.
CopyMarkNode ==
    \E k \in 1..2, index \in Leaves, value \in BOOLEAN :
        /\ CopyBegin(k).data[index] = binTreeStateUnknown
        /\ CopyStep("MarkNode", k, 0,
                    WriteBack(caller.heap, caller.state[k],
                              MarkNode(CopyBegin(k), index, value)))

CopySetStallIndex ==
    \E k \in 1..2, index \in Nodes :
        CopyStep("SetStallIndex", k, 0,
                 WriteBack(caller.heap, caller.state[k],
                           SetStallIndex(CopyBegin(k), index)))

\* State k copies from state src, the other state or itself.
CopyCopyFrom ==
    \E k \in 1..2, src \in 1..2 :
        CopyStep("CopyFrom", k, src,
                 CopyFrom(caller.heap, caller.state[k], caller.state[src]))

CopyNext == CopyMarkNode \/ CopySetStallIndex \/ CopyCopyFrom

CopySpec == CopyInit /\ [][CopyNext]_vars

\* An operand of a filter expression is lowered.  The operand is a comparison
\* parsed from one or two of the operator characters, or a check (IS [NOT]
\* NULL | MISSING, any setting of the three pointers), over sides that lower
\* to a field, to a value, or fail.  caller.chars keeps the operator
\* characters of a comparison.
OpChars == {"!", "=", "<", ">"}

OpCharSeqs == {<<c>> : c \in OpChars} \cup {<<c, d>> : c \in OpChars, d \in OpChars}

Sides ==
    {Returns([kind |-> "FieldExpr", Path |-> "a"], Nil),
     Returns(ValueExpr("1"), Nil),
     Returns(Nil, Error("Invalid FEField"))}

BoolPtrs == {Nil, BoolPtr(TRUE), BoolPtr(FALSE)}

CheckOps == [Not : BoolPtrs, Null : BoolPtrs, Missing : BoolPtrs]

NoCall == [op |-> "none", arg |-> 0, panic |-> NoPanic, marked |-> <<>>, early |-> {}]

OperandInit ==
    /\ tree = <<>>
    /\ data = <<>>
    /\ stallIndex = 0
    /\ call = NoCall
    /\ \/ \E chars \in OpCharSeqs, lhs \in Sides, rhs \in Sides :
              caller = [kind |-> "operand", chars |-> chars,
                        f |-> [BooleanExpr |-> Nil, LHS |-> lhs, Op |-> FECompareOp(chars),
                               RHS |-> rhs, CheckOp |-> Nil],
                        out |-> Nil]
       \/ \E checkOp \in CheckOps, lhs \in Sides :
              caller = [kind |-> "operand", chars |-> <<>>,
                        f |-> [BooleanExpr |-> Nil, LHS |-> lhs, Op |-> Nil,
                               RHS |-> Nil, CheckOp |-> checkOp],
                        out |-> Nil]

DoOperandOutput ==
    /\ caller.out = Nil
    /\ caller' = [caller EXCEPT !.out = FEOperand_OutputExpression(caller.f)]
    /\ call' = [NoCall EXCEPT !.op = "FEOperand.OutputExpression"]
    /\ UNCHANGED <<tree, data, stallIndex>>

OperandNext == DoOperandOutput

OperandSpec == OperandInit /\ [][OperandNext]_vars

\* A filter expression comes out of the parser and is lowered.  The parsed
\* expressions are all those of at most MaxExprSize operands and NOTs, every
\* operand a comparison `field = "1"` on one of two fields, with any number
\* of parentheses up to MaxParens before and after each AndCondition.
FieldNames == {"a", "b"}

FieldExpr(path) == [kind |-> "FieldExpr", Path |-> path]

FieldOperand(path) ==
    [BooleanExpr |-> Nil, LHS |-> Returns(FieldExpr(path), Nil),
     Op |-> FECompareOp(<<"=">>), RHS |-> Returns(ValueExpr("1"), Nil), CheckOp |-> Nil]

RECURSIVE Conditions(_)
Conditions(n) ==
    IF n = 1 THEN {[Not |-> Nil, Operand |-> FieldOperand(path)] : path \in FieldNames}
    ELSE {[Not |-> c, Operand |-> Nil] : c \in Conditions(n - 1)}

RECURSIVE ConditionSeqs(_)
ConditionSeqs(n) ==
    IF n = 0 THEN {<<>>}
    ELSE UNION {{<<c>> \o rest : c \in Conditions(k), rest \in ConditionSeqs(n - k)} :
                   k \in 1..n}

AndConditionsOfSize(n) ==
    {[OpenParens |-> open, OrConditions |-> conds, CloseParens |-> close] :
        open \in 0..MaxParens, conds \in ConditionSeqs(n), close \in 0..MaxParens}

RECURSIVE AndConditionSeqs(_)
AndConditionSeqs(n) ==
    IF n = 0 THEN {<<>>}
    ELSE UNION {{<<ac>> \o rest : ac \in AndConditionsOfSize(k),
                                  rest \in AndConditionSeqs(n - k)} : k \in 1..n}

RECURSIVE FilterExpressions(_)
RECURSIVE FilterExpressionSeqs(_)

FilterExpressions(n) ==
    UNION {{[AndConditions |-> acs, SubFilterExpr |-> subs] :
               acs \in AndConditionSeqs(k), subs \in FilterExpressionSeqs(n - k)} :
              k \in 1..n}

FilterExpressionSeqs(n) ==
    IF n = 0 THEN {<<>>}
    ELSE UNION {{<<fe>> \o rest : fe \in FilterExpressions(k),
                                  rest \in FilterExpressionSeqs(n - k)} : k \in 1..n}

LowerInit ==
    /\ tree = <<>>
    /\ data = <<>>
    /\ stallIndex = 0
    /\ call = NoCall
    /\ \E n \in 1..MaxExprSize : \E f \in FilterExpressions(n) :
           caller = [kind |-> "lowering", f |-> f, out |-> Nil]

DoOutputExpression ==
    /\ caller.out = Nil
    /\ caller' = [caller EXCEPT !.out = OutputExpression(caller.f)]
    /\ call' = [NoCall EXCEPT !.op = "FilterExpression.OutputExpression"]
    /\ UNCHANGED <<tree, data, stallIndex>>

LowerNext == DoOutputExpression

LowerSpec == LowerInit /\ [][LowerNext]_vars

\* The same text is compiled again and again with its parentheses changed:
\* the parsed expression keeps its AndConditions and SubFilterExpr and gets
\* other OpenParens and CloseParens lists in one of its AndConditions.  The
\* parsed expressions are one or two AndConditions, or one AndCondition and
\* one sub-filter-expression of one AndCondition, each AndCondition of at
\* most MaxParenSize operands and NOTs.  caller.ir keeps the IR of the last
\* lowering that returned no error.
ParenAndConditions == UNION {AndConditionsOfSize(n) : n \in 1..MaxParenSize}

ParenExpressions ==
    {[AndConditions |-> acs, SubFilterExpr |-> <<>>] :
        acs \in {<<a>> : a \in ParenAndConditions}
                \cup {<<a, b>> : a \in ParenAndConditions, b \in ParenAndConditions}}
    \cup {[AndConditions |-> <<a>>,
           SubFilterExpr |-> <<[AndConditions |-> <<b>>, SubFilterExpr |-> <<>>]>>] :
              a \in ParenAndConditions, b \in ParenAndConditions}

ParenInit ==
    /\ tree = <<>>
    /\ data = <<>>
    /\ stallIndex = 0
    /\ call = NoCall
    /\ \E f \in ParenExpressions :
           caller = [kind |-> "parentheses", f |-> f, out |-> Nil, ir |-> Nil]

ParenOutputExpression ==
    /\ caller.out = Nil
    /\ caller' = [caller EXCEPT !.out = OutputExpression(caller.f)]
    /\ call' = [NoCall EXCEPT !.op = "FilterExpression.OutputExpression"]
    /\ UNCHANGED <<tree, data, stallIndex>>

\* The next text: other parentheses around one AndCondition of the
\* expression or of its sub-filter-expression.
ParenChange ==
    /\ caller.out # Nil
    /\ \E open \in 0..MaxParens, close \in 0..MaxParens :
           \/ \E i \in 1..Len(caller.f.AndConditions) :
                  /\ <<open, close>> # <<caller.f.AndConditions[i].OpenParens,
                                         caller.f.AndConditions[i].CloseParens>>
                  /\ caller' = [caller EXCEPT
                         !.f.AndConditions[i].OpenParens = open,
                         !.f.AndConditions[i].CloseParens = close,
                         !.ir = IF caller.out.err = Nil THEN caller.out.expr ELSE @,
                         !.out = Nil]
           \/ \E s \in 1..Len(caller.f.SubFilterExpr) :
                  \E i \in 1..Len(caller.f.SubFilterExpr[s].AndConditions) :
                      /\ <<open, close>> #
                            <<caller.f.SubFilterExpr[s].AndConditions[i].OpenParens,
                              caller.f.SubFilterExpr[s].AndConditions[i].CloseParens>>
                      /\ caller' = [caller EXCEPT
                             !.f.SubFilterExpr[s].AndConditions[i].OpenParens = open,
                             !.f.SubFilterExpr[s].AndConditions[i].CloseParens = close,
                             !.ir = IF caller.out.err = Nil THEN caller.out.expr ELSE @,
                             !.out = Nil]
    /\ call' = [NoCall EXCEPT !.op = "parse"]
    /\ UNCHANGED <<tree, data, stallIndex>>

ParenNext == ParenOutputExpression \/ ParenChange

ParenSpec == ParenInit /\ [][ParenNext]_vars

\* A builder hands the validator a node array: one the validator accepts, or
\* the empty array, or one of these with one node overwritten by any node
\* NewBinTreeNode can make (any node type, one past nodeTypeLoop included,
\* and any indexes from 0 to the length of the array).
BuildNodes(n) ==
    {NewBinTreeNode(nodeType, parent, left, right) :
        nodeType \in nodeTypeLeaf..(nodeTypeLoop + 1),
        parent \in 0..n, left \in 0..n, right \in 0..n}

BuildInit ==
    /\ Fresh(ValidTrees(MaxBuildNodes) \cup {<<>>})
    /\ caller = [kind |-> "builder", written |-> FALSE, err |-> "not validated"]

BuildWrite ==
    /\ ~caller.written
    /\ caller.err = "not validated"
    /\ \E item \in Nodes, node \in BuildNodes(NumNodes(tree)) :
           /\ node # tree[item]
           /\ tree' = [tree EXCEPT ![item] = node]
    /\ caller' = [caller EXCEPT !.written = TRUE]
    /\ UNCHANGED <<data, stallIndex, call>>

DoValidate ==
    /\ caller.err = "not validated"
    /\ LET outcome == ValidateOutcome(tree)
       IN /\ call' = [op |-> "Validate", arg |-> 0,
                      panic |-> IF outcome = "panic" THEN PanicIndexOutOfRange
                                ELSE NoPanic,
                      marked |-> <<>>, early |-> {}]
          /\ caller' = [caller EXCEPT !.err = outcome]
    /\ UNCHANGED <<tree, data, stallIndex>>

BuildNext == BuildWrite \/ DoValidate

BuildSpec == BuildInit /\ [][BuildNext]_vars

(***************************************************************************)
(* FEField: a field path with an optional negation and an optional         *)
(* arithmetic operator with its literal.  A pointer field of the parse     *)
(* tree is Nil or the value it points to; numbers are kept as the text of  *)
(* the literal.                                                            *)
(***************************************************************************)
MathFuncNeg == "neg"
MathFuncAdd == "add"
MathFuncSub == "sub"
MathFuncMul == "mul"
MathFuncDiv == "div"
MathFuncMod == "mod"

\* A pointer that is not nil: the type and the value of what it points to.
Ptr(type, value) == [kind |-> type, value |-> value]

FuncExpr(funcName, params) == [kind |-> "FuncExpr", FuncName |-> funcName, Params |-> params]

\* The strings the three ISO-8601 patterns match, among the strings of the
\* model.
iso8601Dates == {"2021", "2021-01", "2021-01-02"}

\* strings.Join(elems, " ")
RECURSIVE JoinWithSpace(_)
JoinWithSpace(elems) ==
    IF elems = <<>> THEN ""
    ELSE IF Len(elems) = 1 THEN elems[1]
    ELSE elems[1] \o " " \o JoinWithSpace(Tail(elems))

\* FEOnePath.String: the name and the array indexes, a space between them
FEOnePath_String(f) ==
    JoinWithSpace(<<IF f.OnePathFunc # Nil THEN f.OnePathFunc.value
                    ELSE f.StrValue.value>>
                  \o f.ArrayIndexes)

\* FEOnePath.OutputOnePath: the path name, the array indexes and the error
FEOnePath_OutputOnePath(f) ==
    IF f.StrValue # Nil THEN [name |-> f.StrValue.value, arrays |-> f.ArrayIndexes, err |-> Nil]
    ELSE IF f.OnePathFunc # Nil
    THEN [name |-> f.OnePathFunc.value, arrays |-> f.ArrayIndexes, err |-> Nil]
    ELSE [name |-> "", arrays |-> f.ArrayIndexes, err |-> Error("Invalid internal FEOnePath")]

FEMathArithmeticOp_OutputExpression(f) ==
    IF f.Addition # Nil THEN Returns(FuncExpr(MathFuncAdd, <<>>), Nil)
    ELSE IF f.Subtraction # Nil THEN Returns(FuncExpr(MathFuncSub, <<>>), Nil)
    ELSE IF f.Multiply # Nil THEN Returns(FuncExpr(MathFuncMul, <<>>), Nil)
    ELSE IF f.Division # Nil THEN Returns(FuncExpr(MathFuncDiv, <<>>), Nil)
    ELSE IF f.Modulo # Nil THEN Returns(FuncExpr(MathFuncMod, <<>>), Nil)
    ELSE Returns(Nil, Error("Invalid FEMathArithmeticOp"))

FEMathValue_OutputExpression(f) ==
    IF f.IntValue # Nil THEN Returns(ValueExpr(f.IntValue.value), Nil)
    ELSE IF f.FloatValue # Nil THEN Returns(ValueExpr(f.FloatValue.value), Nil)
    ELSE Returns(Nil, Error("Invalid FEMathValue"))

\* ShouldHandleSpecialValue without the test that the path has one element.
ShouldHandleSpecialValueAnyLength(f) ==
    FEOnePath_String(f.Path[1]) \in iso8601Dates

ShouldHandleSpecialValue(f) ==
    Len(f.Path) = 1 /\ FEOnePath_String(f.Path[1]) \in iso8601Dates

OutputExpressionSpecialAsValue(f) ==
    Returns(ValueExpr(FEOnePath_String(f.Path[1])), Nil)

\* The loop over f.Path, from element i on: the path collected, or the error
\* of the first element that has one.
RECURSIVE PathLoop(_, _, _)
PathLoop(f, i, path) ==
    IF i > Len(f.Path) THEN Returns(FieldExpr(path), Nil)
    ELSE LET one == FEOnePath_OutputOnePath(f.Path[i])
         IN IF one.err # Nil THEN Returns(FieldExpr(path), one.err)
            ELSE PathLoop(f, i + 1, Append(path, one.name) \o one.arrays)

\* FEField.OutputExpression with the negation put around the whole
\* operation instead of around the field.
FEField_OutputExpressionNegOutside(f) ==
    IF ShouldHandleSpecialValue(f) THEN OutputExpressionSpecialAsValue(f)
    ELSE LET out == PathLoop(f, 1, <<>>)
             outExpr == out.expr
         IN IF out.err # Nil THEN out
            ELSE IF f.MathNeg # Nil \/ (f.MathOp # Nil /\ f.MathValue # Nil)
            THEN IF f.MathOp = Nil
                 THEN Returns(FuncExpr(MathFuncNeg, <<outExpr>>), Nil)
                 ELSE LET mathOpExpr == FEMathArithmeticOp_OutputExpression(f.MathOp)
                          valueExpr == FEMathValue_OutputExpression(f.MathValue)
                          opExpr == FuncExpr(mathOpExpr.expr.FuncName,
                                             <<outExpr, valueExpr.expr>>)
                      IN IF mathOpExpr.err # Nil THEN Returns(Nil, mathOpExpr.err)
                         ELSE IF valueExpr.err # Nil THEN Returns(Nil, valueExpr.err)
                         ELSE IF f.MathNeg # Nil
                         THEN Returns(FuncExpr(MathFuncNeg, <<opExpr>>), Nil)
                         ELSE Returns(opExpr, Nil)
            ELSE Returns(outExpr, Nil)

\* FEField.OutputExpression.  A nil MathValue next to a negation and an
\* operator is a nil pointer dereference; the grammar parses the operator and
\* its literal together, so that the parser never produces it.
FEField_OutputExpression(f) ==
    IF ShouldHandleSpecialValue(f) THEN OutputExpressionSpecialAsValue(f)
    ELSE LET out == PathLoop(f, 1, <<>>)
             outExpr == out.expr
         IN IF out.err # Nil THEN out
            ELSE IF f.MathNeg # Nil \/ (f.MathOp # Nil /\ f.MathValue # Nil)
            THEN IF f.MathOp = Nil
                 THEN Returns(FuncExpr(MathFuncNeg, <<outExpr>>), Nil)
                 ELSE LET mathOpExpr == FEMathArithmeticOp_OutputExpression(f.MathOp)
                          first == IF f.MathNeg # Nil
                                   THEN FuncExpr(MathFuncNeg, <<outExpr>>)
                                   ELSE outExpr
                          valueExpr == FEMathValue_OutputExpression(f.MathValue)
                      IN IF mathOpExpr.err # Nil THEN Returns(Nil, mathOpExpr.err)
                         ELSE IF valueExpr.err # Nil THEN Returns(Nil, valueExpr.err)
                         ELSE Returns(FuncExpr(mathOpExpr.expr.FuncName,
                                               <<first, valueExpr.expr>>), Nil)
            ELSE Returns(outExpr, Nil)

\* The FEField values the parser produces, within the bounds: a path of one
\* or two elements, each a name (an ISO-8601 date among them) or META(), with
\* up to one array index; the negation or not; the operator and its literal
\* together or not at all.
PathNames == {"a", "2021-01-02"}

OnePaths ==
    {[OnePathFunc |-> Nil, StrValue |-> Ptr("FEStringType", name), ArrayIndexes |-> idx] :
        name \in PathNames, idx \in {<<>>, <<"[0]">>}}
    \cup {[OnePathFunc |-> Ptr("FEOnePathFuncExpr", "META()"), StrValue |-> Nil,
            ArrayIndexes |-> <<>>]}

Paths == {<<one>> : one \in OnePaths} \cup {<<one, two>> : one \in OnePaths, two \in OnePaths}

MathOps ==
    {[Addition |-> BoolPtr(TRUE), Subtraction |-> Nil, Multiply |-> Nil,
      Division |-> Nil, Modulo |-> Nil],
     [Addition |-> Nil, Subtraction |-> BoolPtr(TRUE), Multiply |-> Nil,
      Division |-> Nil, Modulo |-> Nil],
     [Addition |-> Nil, Subtraction |-> Nil, Multiply |-> BoolPtr(TRUE),
      Division |-> Nil, Modulo |-> Nil],
     [Addition |-> Nil, Subtraction |-> Nil, Multiply |-> Nil,
      Division |-> BoolPtr(TRUE), Modulo |-> Nil],
     [Addition |-> Nil, Subtraction |-> Nil, Multiply |-> Nil,
      Division |-> Nil, Modulo |-> BoolPtr(TRUE)]}

MathValues ==
    {[IntValue |-> Ptr("int", "2"), FloatValue |-> Nil],
     [IntValue |-> Nil, FloatValue |-> Ptr("float64", "1.5")]}

Fields ==
    {[MathNeg |-> neg, Path |-> path, MathOp |-> Nil, MathValue |-> Nil] :
        neg \in {Nil, BoolPtr(TRUE)}, path \in Paths}
    \cup {[MathNeg |-> neg, Path |-> path, MathOp |-> op, MathValue |-> value] :
        neg \in {Nil, BoolPtr(TRUE)}, path \in Paths, op \in MathOps,
        value \in MathValues}

FieldInit ==
    /\ tree = <<>>
    /\ data = <<>>
    /\ stallIndex = 0
    /\ call = NoCall
    /\ \E f \in Fields : caller = [kind |-> "field", f |-> f, out |-> Nil]

DoFieldOutput ==
    /\ caller.out = Nil
    /\ caller' = [caller EXCEPT !.out = FEField_OutputExpression(caller.f)]
    /\ call' = [NoCall EXCEPT !.op = "FEField.OutputExpression"]
    /\ UNCHANGED <<tree, data, stallIndex>>

FieldNext == DoFieldOutput

FieldSpec == FieldInit /\ [][FieldNext]_vars

(***************************************************************************)
(* REGEXP_CONTAINS(argument, pattern): FEBooleanFuncTwoArgs.  The parse    *)
(* trees of the model hold no function of one or two arguments; a function *)
(* argument is PI() or E().                                                *)
(***************************************************************************)
LikeExpr(lhs, rhs) == [kind |-> "LikeExpr", Lhs |-> lhs, Rhs |-> rhs]

RegexExpr(regex) == [kind |-> "RegexExpr", Regex |-> regex]

\* The pattern texts that are PCRE-shaped, and those of them the PCRE
\* backend compiles.
PcreShaped == {"(?i)^foo", "(?<!a"}
PcreValid == {"(?i)^foo"}

tokenIsPcreValueType(token) == token \in PcreShaped

MakePcreExpression(expression) ==
    IF expression \in PcreValid
    THEN Returns([kind |-> "PcreExpr", Pcre |-> expression], Nil)
    ELSE Returns(Nil, Error("MalformedRegex"))

FEValue_String(fev) ==
    IF fev.StrValue # Nil THEN fev.StrValue.value
    ELSE IF fev.IntValue # Nil THEN fev.IntValue.value
    ELSE IF fev.FloatValue # Nil THEN fev.FloatValue.value
    ELSE "?? (FEValue)"

FEValue_OutputExpression(f) ==
    IF f.StrValue # Nil THEN Returns(ValueExpr(f.StrValue.value), Nil)
    ELSE IF f.IntValue # Nil THEN Returns(ValueExpr(f.IntValue.value), Nil)
    ELSE IF f.FloatValue # Nil THEN Returns(ValueExpr(f.FloatValue.value), Nil)
    ELSE Returns(ValueExpr(Nil), Error("Invalid FEValue"))

FEConstFuncNoArg_OutputExpression(f) ==
    IF f.ConstFuncNoArgName = Nil THEN Returns(Nil, Error("Invalid FEConstFuncNoArg"))
    ELSE IF f.ConstFuncNoArgName.Pi # Nil /\ f.ConstFuncNoArgName.Pi.value
    THEN Returns(ValueExpr("math.Pi"), Nil)
    ELSE IF f.ConstFuncNoArgName.E # Nil /\ f.ConstFuncNoArgName.E.value
    THEN Returns(ValueExpr("math.E"), Nil)
    ELSE Returns(Nil, Error("Invalid FEConstFuncNoArg"))

FEConstFuncExpression_OutputExpression(f) ==
    IF f.ConstFuncNoArg # Nil THEN FEConstFuncNoArg_OutputExpression(f.ConstFuncNoArg)
    ELSE Returns(Nil, Error("Invalid FEConstFuncExpression"))

FEConstFuncArgument_OutputExpression(f) ==
    IF f.Argument # Nil THEN FEValue_OutputExpression(f.Argument)
    ELSE IF f.Field # Nil THEN FEField_OutputExpression(f.Field)
    ELSE IF f.SubFunc # Nil THEN FEConstFuncExpression_OutputExpression(f.SubFunc)
    ELSE Returns(Nil, Error("Invalid FEConstFuncArgument"))

\* OutputRegexExpression lowering a function argument as OutputExpression
\* does.
OutputRegexExpressionOfFunc(f) ==
    IF f.Argument = Nil
    THEN FEConstFuncExpression_OutputExpression(f.SubFunc)
    ELSE IF tokenIsPcreValueType(FEValue_String(f.Argument))
    THEN MakePcreExpression(FEValue_String(f.Argument))
    ELSE Returns(RegexExpr(FEValue_String(f.Argument)), Nil)

\* FEConstFuncArgumentRHS.OutputRegexExpression
OutputRegexExpression(f) ==
    IF f.Argument = Nil
    THEN Returns(Nil, Error("Invalid FEConstFuncArgumentRHS for regex expression"))
    ELSE IF tokenIsPcreValueType(FEValue_String(f.Argument))
    THEN MakePcreExpression(FEValue_String(f.Argument))
    ELSE Returns(RegexExpr(FEValue_String(f.Argument)), Nil)

FEBooleanFuncTwoArgsName_OutputExpression(n) ==
    IF n.RegexContains # Nil /\ n.RegexContains.value
    THEN Returns(LikeExpr(Nil, Nil), Nil)
    ELSE Returns(Nil, Error("ErrorNotFound"))

FEBooleanFuncTwoArgs_OutputExpression(f) ==
    IF /\ f.BooleanFuncTwoArgsName # Nil
       /\ f.BooleanFuncTwoArgsName.RegexContains # Nil
       /\ f.BooleanFuncTwoArgsName.RegexContains.value
       /\ f.Argument0 # Nil
       /\ f.Argument1 # Nil
    THEN LET outputExpr == FEBooleanFuncTwoArgsName_OutputExpression(f.BooleanFuncTwoArgsName)
             outExpr == outputExpr.expr
             arg0 == FEConstFuncArgument_OutputExpression(f.Argument0)
             withLhs == [outExpr EXCEPT !.Lhs = arg0.expr]
             arg1 == OutputRegexExpression(f.Argument1)
         IN IF outputExpr.err # Nil THEN Returns(Nil, outputExpr.err)
            ELSE IF arg0.err # Nil THEN Returns(outExpr, arg0.err)
            ELSE IF arg1.err # Nil THEN Returns(withLhs, arg1.err)
            ELSE Returns([withLhs EXCEPT !.Rhs = arg1.expr], Nil)
    ELSE Returns(Nil, Error("Invalid FEBooleanFuncTwoArgs"))

\* The REGEXP_CONTAINS calls the parser produces, within the bounds: the
\* first argument a function, a field or a literal, the pattern a function or
\* a literal.
Values ==
    {[StrValue |-> Ptr("string", str), IntValue |-> Nil, FloatValue |-> Nil] :
        str \in {"^foo", "a"} \cup PcreShaped}
    \cup {[StrValue |-> Nil, IntValue |-> Ptr("int", "5"), FloatValue |-> Nil]}

ConstFuncs ==
    {[ConstFuncNoArg |-> [ConstFuncNoArgName |-> [Pi |-> pi, E |-> e]],
      ConstFuncOneArg |-> Nil, ConstFuncTwoArgs |-> Nil] :
        pi \in {Nil, BoolPtr(TRUE)}, e \in {Nil, BoolPtr(TRUE)}}
    \ {[ConstFuncNoArg |-> [ConstFuncNoArgName |-> [Pi |-> same, E |-> same]],
        ConstFuncOneArg |-> Nil, ConstFuncTwoArgs |-> Nil] :
        same \in {Nil, BoolPtr(TRUE)}}

RegexFields ==
    {f \in Fields : Len(f.Path) = 1 /\ f.Path[1].ArrayIndexes = <<>> /\ f.MathOp = Nil}

Arguments ==
    {[SubFunc |-> subFunc, Field |-> Nil, Argument |-> Nil] : subFunc \in ConstFuncs}
    \cup {[SubFunc |-> Nil, Field |-> field, Argument |-> Nil] : field \in RegexFields}
    \cup {[SubFunc |-> Nil, Field |-> Nil, Argument |-> value] : value \in Values}

ArgumentsRHS ==
    {[SubFunc |-> subFunc, Argument |-> Nil] : subFunc \in ConstFuncs}
    \cup {[SubFunc |-> Nil, Argument |-> value] : value \in Values}

RegexInit ==
    /\ tree = <<>>
    /\ data = <<>>
    /\ stallIndex = 0
    /\ call = NoCall
    /\ \E arg0 \in Arguments, arg1 \in ArgumentsRHS :
           caller = [kind |-> "regex",
                     f |-> [BooleanFuncTwoArgsName |-> [RegexContains |-> BoolPtr(TRUE)],
                            Argument0 |-> arg0, Argument1 |-> arg1],
                     out |-> Nil]

DoRegexOutput ==
    /\ caller.out = Nil
    /\ caller' = [caller EXCEPT !.out = FEBooleanFuncTwoArgs_OutputExpression(caller.f)]
    /\ call' = [NoCall EXCEPT !.op = "FEBooleanFuncTwoArgs.OutputExpression"]
    /\ UNCHANGED <<tree, data, stallIndex>>

RegexNext == DoRegexOutput

RegexSpec == RegexInit /\ [][RegexNext]_vars

(***************************************************************************)
(* The places a parsed field is lowered from: the two sides of a           *)
(* comparison (FELhs, FERhs), a function argument (FEConstFuncArgument,    *)
(* the argument of DATE among them) and EXISTS (FEExistsClause).  The Bool *)
(* of a side, when set, stands for what its OutputExpression(true)         *)
(* returns.                                                                *)
(***************************************************************************)
FELhs_OutputExpression(f) ==
    IF f.Field # Nil THEN FEField_OutputExpression(f.Field)
    ELSE IF f.Value # Nil THEN FEValue_OutputExpression(f.Value)
    ELSE IF f.Func # Nil THEN FEConstFuncExpression_OutputExpression(f.Func)
    ELSE IF f.Bool # Nil THEN f.Bool
    ELSE Returns(Nil, Error("Invalid FELhs"))

FERhs_OutputExpression(f) ==
    IF f.Field # Nil THEN FEField_OutputExpression(f.Field)
    ELSE IF f.Value # Nil THEN FEValue_OutputExpression(f.Value)
    ELSE IF f.Func # Nil THEN FEConstFuncExpression_OutputExpression(f.Func)
    ELSE IF f.Bool # Nil THEN f.Bool
    ELSE Returns(Nil, Error("Invalid FERhs"))

FEExistsClause_OutputExpression(f) ==
    IF f.Field # Nil
    THEN LET r == FEField_OutputExpression(f.Field)
         IN IF r.err # Nil THEN Returns(Nil, r.err)
            ELSE Returns(ExistsExpr(r.expr), Nil)
    ELSE Returns(Nil, Error("Invalid FEExistsClause"))

\* A parsed field comes out of the parser in one of the four places and the
\* place is lowered.  caller.ctx is the Go type of the place, caller.f the
\* parsed place, whose Field is one of Fields.
DateInit ==
    /\ tree = <<>>
    /\ data = <<>>
    /\ stallIndex = 0
    /\ call = NoCall
    /\ \E field \in Fields :
           \/ caller = [kind |-> "date", ctx |-> "FELhs", out |-> Nil,
                        f |-> [Func |-> Nil, Bool |-> Nil, Field |-> field, Value |-> Nil]]
           \/ caller = [kind |-> "date", ctx |-> "FERhs", out |-> Nil,
                        f |-> [Func |-> Nil, Bool |-> Nil, Value |-> Nil, Field |-> field]]
           \/ caller = [kind |-> "date", ctx |-> "FEConstFuncArgument", out |-> Nil,
                        f |-> [SubFunc |-> Nil, Field |-> field, Argument |-> Nil]]
           \/ caller = [kind |-> "date", ctx |-> "FEExistsClause", out |-> Nil,
                        f |-> [Field |-> field]]

DoDateOutput ==
    /\ caller.out = Nil
    /\ caller' = [caller EXCEPT !.out =
           CASE caller.ctx = "FELhs" -> FELhs_OutputExpression(caller.f)
             [] caller.ctx = "FERhs" -> FERhs_OutputExpression(caller.f)
             [] caller.ctx = "FEConstFuncArgument" ->
                    FEConstFuncArgument_OutputExpression(caller.f)
             [] caller.ctx = "FEExistsClause" -> FEExistsClause_OutputExpression(caller.f)]
    /\ call' = [NoCall EXCEPT !.op = "OutputExpression"]
    /\ UNCHANGED <<tree, data, stallIndex>>

DateNext == DoDateOutput

DateSpec == DateInit /\ [][DateNext]_vars

(***************************************************************************)
(* GetFilterExpressionMatcher: the compile entry point.  The participle    *)
(* parser is a library: lib is what it does with the expression, build     *)
(* (participle.Build: "ok" or "error") and parse (ParseString: "ok",       *)
(* "error" or "panic") with the parse tree fe it fills in.  stages lists   *)
(* the stages the call ran.                                                *)
(***************************************************************************)
ErrorEmptyInput == Error("EmptyInput")

EmptyFilterExpression == [AndConditions |-> <<>>, SubFilterExpr |-> <<>>]

\* parserWrapper recovering the panic without setting the error.
parserWrapperDropsPanic(lib) ==
    IF lib.parse = "panic" THEN Nil
    ELSE IF lib.parse = "error" THEN Error("parse error")
    ELSE Nil

\* parserWrapper: the value of *err when it returns
parserWrapper(lib) ==
    IF lib.parse = "panic" THEN Error("Error from parser")
    ELSE IF lib.parse = "error" THEN Error("parse error")
    ELSE Nil

NewFilterExpressionParser(expression, lib) ==
    IF Len(expression) = 0
    THEN [fe |-> EmptyFilterExpression, err |-> ErrorEmptyInput,
          stages |-> <<"empty check">>]
    ELSE IF lib.build = "error"
    THEN [fe |-> EmptyFilterExpression, err |-> Error("build error"),
          stages |-> <<"empty check", "parse">>]
    ELSE [fe |-> lib.fe, err |-> parserWrapper(lib),
          stages |-> <<"empty check", "parse">>]

\* Transformer.Transform and NewFastMatcher: the matcher of the expression
Transform(exprs) == [kind |-> "MatchDef", exprs |-> exprs]

NewFastMatcher(matchDef) == [kind |-> "FastMatcher", def |-> matchDef]

GetFilterExpressionMatcher(expression, lib) ==
    LET parsed == NewFilterExpressionParser(expression, lib)
        lowered == OutputExpression(parsed.fe)
    IN IF parsed.err # Nil
       THEN [matcher |-> Nil, err |-> parsed.err, stages |-> parsed.stages]
       ELSE IF lowered.err # Nil
       THEN [matcher |-> Nil, err |-> lowered.err,
             stages |-> Append(parsed.stages, "lowering")]
       ELSE [matcher |-> NewFastMatcher(Transform(<<lowered.expr>>)), err |-> Nil,
             stages |-> parsed.stages \o <<"lowering", "transformation">>]

\* What the parser library can do with an expression that is not empty; the
\* parse trees it fills in are those of one parenthesized conjunction.
ParsedExpressions ==
    {[AndConditions |-> <<ac>>, SubFilterExpr |-> <<>>] :
        ac \in UNION {AndConditionsOfSize(n) : n \in 1..MaxCompileSize}}

ParserRuns ==
    {[build |-> "ok", parse |-> "ok", fe |-> fe] : fe \in ParsedExpressions}
    \cup {[build |-> "ok", parse |-> outcome, fe |-> EmptyFilterExpression] :
        outcome \in {"error", "panic"}}
    \cup {[build |-> "error", parse |-> "ok", fe |-> EmptyFilterExpression]}

CompileInit ==
    /\ tree = <<>>
    /\ data = <<>>
    /\ stallIndex = 0
    /\ call = NoCall
    /\ \E expression \in {"", "x"}, lib \in ParserRuns :
           caller = [kind |-> "compile", expression |-> expression, lib |-> lib,
                     out |-> Nil]

DoGetFilterExpressionMatcher ==
    /\ caller.out = Nil
    /\ caller' = [caller EXCEPT
                      !.out = GetFilterExpressionMatcher(caller.expression, caller.lib)]
    /\ call' = [NoCall EXCEPT !.op = "GetFilterExpressionMatcher"]
    /\ UNCHANGED <<tree, data, stallIndex>>

CompileNext == DoGetFilterExpressionMatcher

CompileSpec == CompileInit /\ [][CompileNext]_vars

(***************************************************************************)
(* Properties.                                                             *)
(***************************************************************************)
Decided == {binTreeStateTrue, binTreeStateFalse}

NoNeor == \A i \in Nodes : tree[i].NodeType # nodeTypeNeor

\* The two-valued value of the subtree of node i under the leaf values val:
\* Or and Neor are disjunction, And conjunction, Not negation, Loop its child.
RECURSIVE Eval(_, _)
Eval(i, val) ==
    LET n == tree[i]
    IN IF n.NodeType = nodeTypeLeaf THEN val[i]
       ELSE IF n.NodeType \in {nodeTypeOr, nodeTypeNeor}
            THEN Eval(n.Left, val) \/ Eval(n.Right, val)
       ELSE IF n.NodeType = nodeTypeAnd THEN Eval(n.Left, val) /\ Eval(n.Right, val)
       ELSE IF n.NodeType = nodeTypeNot THEN ~Eval(n.Left, val)
       ELSE Eval(n.Left, val)

LeafValues == [Leaves -> BOOLEAN]

\* val gives every leaf that is True or False in d that value.
Agrees(val, d) ==
    \A l \in Leaves :
        /\ (d[l] = binTreeStateTrue => val[l])
        /\ (d[l] = binTreeStateFalse => ~val[l])

\* C1: on a tree without Neor, fed leaf by leaf from the fresh state, a root
\* that is True or False has the two-valued value of the tree under every
\* assignment to the leaves that agrees with the leaves marked so far.
C1_ShortCircuitSound ==
    (NoNeor /\ data[0] \in Decided)
        => \A val \in LeafValues :
               Agrees(val, data) => (Eval(0, val) <=> data[0] = binTreeStateTrue)

\* The root is decided while a leaf was never marked, on a tree without Neor.
C1_Witness ==
    /\ NoNeor
    /\ data[0] \in Decided
    /\ \E l \in Leaves : data[l] = binTreeStateResolved
    /\ \E l \in Leaves : data[l] \in Decided

\* C2: MarkNode on a node that is not Unknown panics ("cannot resolve same
\* state node twice") and leaves every node state and the stall index as
\* they were.
C2_RejectedMarkChangesNothing ==
    [][(call'.op = "MarkNode" /\ call'.arg # binTreeStateUnknown)
        => /\ call'.panic = PanicMarkedTwice
           /\ data' = data
           /\ stallIndex' = stallIndex]_vars

\* A MarkNode call was rejected at its entry.
C2_Witness ==
    /\ call.op = "MarkNode"
    /\ call.panic = PanicMarkedTwice
    /\ call.marked = <<>>
    /\ call.arg \in {binTreeStateResolved, binTreeStateTrue, binTreeStateFalse}

\* C3: a node that is not Unknown keeps its state across every MarkNode,
\* Resolve and SetStallIndex call; so does the verdict of a decided root.
C3_Monotonic ==
    [][\A i \in Nodes : data[i] # binTreeStateUnknown => data'[i] = data[i]]_vars

\* Resolve was called on a root that was already decided, with a leaf decided
\* and another one skipped.
C3_Witness ==
    /\ call.op = "Resolve"
    /\ call.marked = <<>>
    /\ data[0] \in Decided
    /\ \E l \in Leaves : data[l] \in Decided
    /\ \E l \in Leaves : data[l] = binTreeStateResolved

Range(f) == {f[x] : x \in DOMAIN f}

\* C4: a Neor node that is True or False has no Unknown child, and no call
\* marks a Neor node while one of its children is still Unknown.
C4_NeorNeverEarly ==
    \A n \in Nodes :
        tree[n].NodeType = nodeTypeNeor
            => /\ data[n] \in Decided
                    => /\ data[tree[n].Left] # binTreeStateUnknown
                       /\ data[tree[n].Right] # binTreeStateUnknown
               /\ n \notin call.early

\* A Neor node whose left child was True waited for its right child: it is
\* marked by the call that decides the right child.
C4_Witness ==
    \E n \in Nodes :
        /\ tree[n].NodeType = nodeTypeNeor
        /\ call.op = "MarkNode"
        /\ n \in Range(call.marked)
        /\ data[n] = binTreeStateTrue
        /\ data[tree[n].Left] = binTreeStateTrue
        /\ call.marked[1] \in Subtree(tree[n].Right)

\* C5: while the stall index is a node s other than the root, a MarkNode call
\* on s or on a descendant of s changes neither the root nor any other proper
\* ancestor of s.
C5_StallDiscipline ==
    [][(/\ call'.op = "MarkNode"
        /\ stallIndex # 0
        /\ call'.marked # <<>> => call'.marked[1] \in Subtree(stallIndex))
        => \A a \in ProperAncestors(stallIndex) : data'[a] = data[a]]_vars

\* A mark below the stalled node decided it, and its parent stays Unknown
\* although its children's states would decide it.
C5_Witness ==
    /\ call.op = "MarkNode"
    /\ stallIndex # 0
    /\ call.marked # <<>>
    /\ call.marked[1] \in Subtree(stallIndex) \ {stallIndex}
    /\ stallIndex \in Range(call.marked)
    /\ LET p == tree[stallIndex].ParentIdx
       IN /\ data[p] = binTreeStateUnknown
          /\ checkNode(Begin(data, 0), p).data[p] \in Decided

\* C7: Resolve, called after leaves were fed from the fresh state, leaves the
\* root True or False, and True exactly when the tree is true with the marked
\* leaves at their values and the leaves that were still Unknown at False
\* (whatever the value of a leaf that was skipped).
C7_FinalizeVerdict ==
    [][call'.op = "Resolve"
        => /\ data'[0] \in Decided
           /\ \A val \in LeafValues :
                  (/\ Agrees(val, data)
                   /\ \A l \in Leaves : data[l] = binTreeStateUnknown => ~val[l])
                      => (Eval(0, val) <=> data'[0] = binTreeStateTrue)]_vars

\* Resolve decided the root as True by marking leaves that were Unknown.
C7_Witness ==
    /\ call.op = "Resolve"
    /\ Len(call.marked) >= 2
    /\ data[0] = binTreeStateTrue
    /\ \E l \in Leaves : data[l] = binTreeStateTrue
    /\ \E l \in Leaves : data[l] = binTreeStateFalse /\ l \in Range(call.marked)

\* The leaves in the order of their indexes.
RECURSIVE Ascending(_)
Ascending(S) ==
    IF S = {} THEN <<>>
    ELSE LET m == CHOOSE x \in S : \A y \in S : x <= y
         IN <<m>> \o Ascending(S \ {m})

RECURSIVE FeedFrom(_, _, _, _)
FeedFrom(st, order, val, k) ==
    IF k > Len(order) THEN st
    ELSE FeedFrom(FeedLeaf(st, order[k], val[order[k]]), order, val, k + 1)

\* The state after the leaves were fed in the given order and Resolve called.
RunInOrder(order, val) ==
    Resolve(FeedFrom(Begin(NewState(tree).data, NewState(tree).stallIndex), order, val, 1))

\* C10: with a value fixed for every leaf, feeding the leaves in any order and
\* then calling Resolve decides the root, and with the verdict that feeding
\* them in the order of their indexes gives.
C10_OrderIndependent ==
    (caller.kind = "feeder" /\ caller.done)
        => /\ data[0] \in Decided
           /\ data[0] = RunInOrder(Ascending(Leaves), caller.val).data[0]

\* A run that fed three leaves in another order than that of their indexes,
\* skipped one of them, and is finished.
C10_Witness ==
    /\ caller.kind = "feeder"
    /\ caller.done
    /\ Cardinality(Leaves) >= 3
    /\ caller.order # Ascending(Leaves)
    /\ \E l \in Leaves : data[l] = binTreeStateResolved
    /\ data[0] = binTreeStateTrue

\* C9: Reset leaves every node Unknown and the stall index 0, as NewState
\* does, and from a Reset on the state stays equal, call after call, to a
\* newly constructed state that is given the same calls.
C9_ResetIsFresh ==
    caller.kind = "twin"
        => /\ call.op = "Reset"
                => /\ data = NewState(tree).data
                   /\ stallIndex = NewState(tree).stallIndex
                   /\ \A i \in Nodes : data[i] = binTreeStateUnknown
           /\ caller.afterReset
                => /\ data = caller.twin.data
                   /\ stallIndex = caller.twin.stallIndex

\* After a Reset, a mark has decided the root.
C9_Witness ==
    /\ caller.kind = "twin"
    /\ caller.afterReset
    /\ call.op = "MarkNode"
    /\ Len(call.marked) >= 2
    /\ data[0] \in Decided

\* C6 as claimed: the loop sequence that calls ResetNode on the child of the
\* Loop node never runs into the panic of MarkNode.
C6_LoopNeverPanics ==
    (caller.kind = "loop" /\ caller.resets = "child") => call.panic = NoPanic

\* C6 as amended: the loop sequence never panics before its first ResetNode,
\* and never at all when it calls ResetNode on the Loop node itself.
C6_LoopNeverPanicsAmended ==
    (caller.kind = "loop" /\ (caller.resets = "loop" \/ ~caller.again))
        => call.panic = NoPanic

\* After a ResetNode on the Loop node, a mark in the body has decided the
\* Loop node, which is not the root.
C6_Witness ==
    /\ caller.kind = "loop"
    /\ caller.resets = "loop"
    /\ caller.again
    /\ caller.loop # 0
    /\ call.op = "MarkNode"
    /\ Len(call.marked) >= 2
    /\ caller.loop \in Range(call.marked)
    /\ call.panic = NoPanic

\* C8: in a state that Resolve has produced, another Resolve changes no node
\* state and not the stall index, and does not panic.
C8_ResolveIdempotent ==
    call.op = "Resolve"
        => LET again == Resolve(Begin(data, stallIndex))
           IN /\ again.data = data
              /\ again.stallIndex = stallIndex
              /\ again.panic = NoPanic

\* Resolve has marked nodes under a stall index.
C8_Witness ==
    /\ call.op = "Resolve"
    /\ stallIndex # 0
    /\ Len(call.marked) >= 2
    /\ data[stallIndex] \in Decided

\* The data model's invariants of a node array t: the walk in pre-order, each
\* node followed by its left subtree and then its right subtree, the node
\* types giving the number of children, covers exactly the indexes of t; the
\* root's parent is 0 and every other node's parent is the node the walk
\* reached it from; Or, And and Neor have Left and Right set, Not and Loop
\* Left only, Leaf neither.
RECURSIVE WalkEnd(_, _)
WalkEnd(t, item) ==
    IF item \notin DOMAIN t THEN -1
    ELSE IF t[item].NodeType = nodeTypeLeaf THEN item + 1
    ELSE IF t[item].NodeType \in UnaryTypes THEN WalkEnd(t, item + 1)
    ELSE IF t[item].NodeType \in BinaryTypes
         THEN LET pos == WalkEnd(t, item + 1)
              IN IF pos < 0 THEN -1 ELSE WalkEnd(t, pos)
    ELSE -1

WalkChildren(t, item) ==
    IF t[item].NodeType \in UnaryTypes THEN {item + 1}
    ELSE IF t[item].NodeType \in BinaryTypes THEN {item + 1, WalkEnd(t, item + 1)}
    ELSE {}

WellFormed(t) ==
    /\ NumNodes(t) >= 1
    /\ WalkEnd(t, 0) = NumNodes(t)
    /\ t[0].ParentIdx = 0
    /\ \A item \in DOMAIN t :
           /\ \A child \in WalkChildren(t, item) : t[child].ParentIdx = item
           /\ t[item].NodeType \in BinaryTypes => t[item].Left # 0 /\ t[item].Right # 0
           /\ t[item].NodeType \in UnaryTypes => t[item].Left # 0 /\ t[item].Right = 0
           /\ t[item].NodeType = nodeTypeLeaf => t[item].Left = 0 /\ t[item].Right = 0

Validated == caller.kind = "builder" /\ caller.err # "not validated"

\* C11: Validate returns nil exactly for the node arrays that satisfy the
\* invariants of the data model.
C11_ValidateIffWellFormed ==
    Validated => (caller.err = "nil" <=> WellFormed(tree))

\* C12: on a node array that breaks an invariant of the data model, the empty
\* array included, Validate returns an error value and does not panic.
C12_MalformedIsError ==
    (Validated /\ ~WellFormed(tree)) => (caller.err = "error" /\ call.panic = NoPanic)

\* The three-valued resolution table: the state an Unknown parent of the given
\* type takes when it is re-evaluated with its children in states l and r.
ResolutionTable(nodeType, l, r) ==
    CASE nodeType = nodeTypeOr ->
           IF l = binTreeStateTrue \/ r = binTreeStateTrue THEN binTreeStateTrue
           ELSE IF l = binTreeStateFalse /\ r = binTreeStateFalse THEN binTreeStateFalse
           ELSE binTreeStateUnknown
      [] nodeType = nodeTypeAnd ->
           IF l = binTreeStateTrue /\ r = binTreeStateTrue THEN binTreeStateTrue
           ELSE IF l = binTreeStateFalse \/ r = binTreeStateFalse THEN binTreeStateFalse
           ELSE binTreeStateUnknown
      [] nodeType = nodeTypeNot ->
           IF l = binTreeStateFalse THEN binTreeStateTrue
           ELSE IF l = binTreeStateTrue THEN binTreeStateFalse
           ELSE binTreeStateUnknown
      [] nodeType = nodeTypeLoop ->
           IF l = binTreeStateTrue THEN binTreeStateTrue
           ELSE IF l = binTreeStateFalse THEN binTreeStateFalse
           ELSE binTreeStateUnknown
      [] nodeType = nodeTypeNeor ->
           IF l = binTreeStateUnknown \/ r = binTreeStateUnknown THEN binTreeStateUnknown
           ELSE IF l = binTreeStateTrue \/ r = binTreeStateTrue THEN binTreeStateTrue
           ELSE binTreeStateFalse

\* C13: in a MarkNode call, every node m the call marked, other than the root
\* and the stalled node, has its parent re-evaluated; a parent that was
\* Unknown ends in the state the resolution table gives for its type and the
\* states its children had at that moment (m as just marked, the other child
\* as before the call), and it is the next node the call marks exactly when
\* that state is True or False.
C13_ResolutionTable ==
    [][(call'.op = "MarkNode" /\ call'.panic = NoPanic) =>
        \A k \in 1..Len(call'.marked) :
            LET m == call'.marked[k]
                parent == tree[m].ParentIdx
                childState(c) == IF c = m THEN data'[m] ELSE data[c]
                l == childState(tree[parent].Left)
                r == IF binTreeNodeTypeHasRight(tree[parent].NodeType)
                     THEN childState(tree[parent].Right) ELSE binTreeStateUnknown
                expected == ResolutionTable(tree[parent].NodeType, l, r)
                isNext == k < Len(call'.marked) /\ call'.marked[k + 1] = parent
            IN (m # 0 /\ m # stallIndex /\ data[parent] = binTreeStateUnknown)
                   => /\ data'[parent] = expected
                      /\ isNext <=> expected \in Decided
                      /\ k < Len(call'.marked) => isNext
      ]_vars

\* A mark on a leaf went up two levels and left the next parent, an And, Or
\* or Neor node, Unknown.
C13_Witness ==
    /\ call.op = "MarkNode"
    /\ call.panic = NoPanic
    /\ Len(call.marked) >= 2
    /\ LET m == call.marked[Len(call.marked)]
       IN /\ m # 0
          /\ m # stallIndex
          /\ data[tree[m].ParentIdx] = binTreeStateUnknown
          /\ tree[tree[m].ParentIdx].NodeType \in BinaryTypes

\* C14: ResetNode(i) leaves node i and every descendant of i Unknown, and
\* leaves the state of every other node, the ancestors of i included, and the
\* stall index as they were.
C14_ResetNodeFrame ==
    [][call'.op = "ResetNode" =>
        /\ \A n \in Nodes :
               data'[n] = IF n \in Subtree(call'.arg) THEN binTreeStateUnknown
                          ELSE data[n]
        /\ stallIndex' = stallIndex
        /\ call'.panic = NoPanic
      ]_vars

\* ResetNode was called on a decided node whose parent is decided too, under
\* a stall index other than 0: the node is Unknown, the parent still decided.
C14_Witness ==
    /\ call.op = "ResetNode"
    /\ call.arg # 0
    /\ stallIndex # 0
    /\ data[call.arg] = binTreeStateUnknown
    /\ data[tree[call.arg].ParentIdx] \in Decided

\* C15: SetStallIndex(i) makes i the stall index, returns the stall index it
\* replaces and changes no node state; handing the returned value back to
\* SetStallIndex puts the stall index back to what it was before the entry.
C15_StallStack ==
    [][call'.op = "SetStallIndex" =>
        /\ stallIndex' = call'.arg
        /\ data' = data
        /\ Len(caller'.saved) > Len(caller.saved)
               => caller'.saved[Len(caller'.saved)] = stallIndex
        /\ Len(caller'.saved) < Len(caller.saved)
               => stallIndex' = caller.before[Len(caller.before)]
      ]_vars

\* The outermost scope was left after a leaf was marked inside it: the last
\* call is the SetStallIndex that hands the saved value back, and the stall
\* index is the one of the fresh state again.
C15_Witness ==
    /\ caller.kind = "stack"
    /\ call.op = "SetStallIndex"
    /\ Len(caller.saved) = 0
    /\ stallIndex = 0
    /\ \E n \in Nodes : data[n] \in Decided

\* What state k of the pair holds.
PairContent(k) ==
    [data |-> caller.heap[caller.state[k].data],
     stallIndex |-> caller.state[k].stallIndex]

\* C16: a call on one of two states made on the same tree leaves the tree and
\* the other state as they were, and after every interleaving of calls each
\* state holds what it holds when its own calls are run alone.
C16_StatesIndependent ==
    [][call'.arg \in 1..2 =>
        /\ tree' = tree
        /\ \A k \in 1..2 : k # call'.arg => PairContent(k)' = PairContent(k)
        /\ \A k \in 1..2 : PairContent(k)' = caller'.alone[k]
      ]_vars

\* After state 1 copied from state 2, a call changed state 2: the two states
\* differ, both with decided nodes.
C16_Witness ==
    /\ caller.kind = "pair"
    /\ call.arg = 2
    /\ PairContent(1).data # PairContent(2).data
    /\ \E n \in Nodes : PairContent(1).data[n] \in Decided
    /\ \E n \in Nodes : PairContent(2).data[n] \in Decided
    /\ PairContent(1).stallIndex # PairContent(2).stallIndex

\* The lowering of an operand has returned.
Lowered == caller.kind = "operand" /\ caller.out # Nil

\* The comparison the operator characters stand for, "error" when none.
ComparisonOf(chars) ==
    CASE chars \in {<<"=">>, <<"=", "=">>} -> "EqualsExpr"
      [] chars \in {<<"!", "=">>, <<"<", ">">>} -> "NotEqualsExpr"
      [] chars = <<">">> -> "GreaterThanExpr"
      [] chars = <<">", "=">> -> "GreaterEqualsExpr"
      [] chars = <<"<">> -> "LessThanExpr"
      [] chars = <<"<", "=">> -> "LessEqualsExpr"
      [] OTHER -> "error"

\* C19: of the one- and two-character sequences over ! = < >, exactly = and
\* == lower to Eq, != and <> to Ne, > to Gt, >= to Ge, < to Lt, <= to Le, with
\* lhs and rhs in their places; every other sequence yields an error; and no
\* sequence satisfies two of the six classification predicates.
C19_CompareOpLowering ==
    (Lowered /\ caller.f.Op # Nil /\ caller.f.LHS.err = Nil /\ caller.f.RHS.err = Nil)
        => /\ IF ComparisonOf(caller.chars) = "error"
              THEN caller.out.err # Nil
              ELSE /\ caller.out.err = Nil
                   /\ caller.out.expr = [kind |-> ComparisonOf(caller.chars),
                                         Lhs |-> caller.f.LHS.expr,
                                         Rhs |-> caller.f.RHS.expr]
           /\ Cardinality({p \in 1..6 :
                   <<IsEqual(caller.f.Op), IsNotEqual(caller.f.Op),
                     IsGreaterThan(caller.f.Op), IsGreaterThanOrEqualTo(caller.f.Op),
                     IsLessThan(caller.f.Op), IsLessThanOrEqualTo(caller.f.Op)>>[p]}) <= 1

\* The comparison <> was lowered, over a field on the left and a value on the
\* right.
C19_Witness ==
    /\ Lowered
    /\ caller.chars = <<"<", ">">>
    /\ caller.out.err = Nil
    /\ caller.out.expr.Lhs.kind = "FieldExpr"
    /\ caller.out.expr.Rhs.kind = "ValueExpr"

\* C20: IS NULL lowers to Eq(lhs, Value(nil)), IS NOT NULL to Not of it,
\* IS MISSING to NotExists(lhs), IS NOT MISSING to Exists(lhs); a check
\* operator with neither NULL nor MISSING set yields an error.
C20_CheckOpLowering ==
    (Lowered /\ caller.f.CheckOp # Nil /\ caller.f.LHS.err = Nil)
        => LET op == caller.f.CheckOp
               lhs == caller.f.LHS.expr
               isSet(p) == p = BoolPtr(TRUE)
               only(p, q) == isSet(p) /\ q = Nil
           IN /\ (only(op.Null, op.Missing) /\ ~isSet(op.Not))
                    => caller.out = Returns(EqualsExpr(lhs, ValueExpr(Nil)), Nil)
              /\ (only(op.Null, op.Missing) /\ isSet(op.Not))
                    => caller.out = Returns(NotExpr(EqualsExpr(lhs, ValueExpr(Nil))), Nil)
              /\ (only(op.Missing, op.Null) /\ ~isSet(op.Not))
                    => caller.out = Returns(NotExistsExpr(lhs), Nil)
              /\ (only(op.Missing, op.Null) /\ isSet(op.Not))
                    => caller.out = Returns(ExistsExpr(lhs), Nil)
              /\ (~isSet(op.Null) /\ ~isSet(op.Missing)) => caller.out.err # Nil

\* IS MISSING was lowered over a field.
C20_Witness ==
    /\ Lowered
    /\ caller.f.CheckOp # Nil
    /\ caller.f.CheckOp.Not = Nil
    /\ caller.f.CheckOp.Missing = BoolPtr(TRUE)
    /\ caller.out.err = Nil
    /\ caller.out.expr.kind = "NotExistsExpr"
    /\ caller.out.expr.SubExpr.kind = "FieldExpr"

\* The lowering of a filter expression has returned.
LoweredFilter == caller.kind = "lowering" /\ caller.out # Nil

\* C17: lowering fails with MalformedParenthesis exactly when the opening
\* parentheses of the whole expression are not as many as its closing ones;
\* an expression balanced as a whole is never rejected with it, whatever the
\* counts inside one of its sub-filter-expressions.
C17_ParensCheckedAsAWhole ==
    LoweredFilter =>
        (caller.out.err = ErrorMalformedParenthesis
            <=> GetTotalOpenParens(caller.f) # GetTotalCloseParens(caller.f))

\* The IR the logical lowering gives for a parsed expression: Or over its
\* AndConditions, each And over its Conditions, NOT X as Not of the lowered
\* X, an operand lhs = rhs as Eq of its sides, all in source order; wrapped in
\* And together with the lowered sub-filter-expressions when there is one.
RECURSIVE LoweredCondition(_)
LoweredCondition(c) ==
    IF c.Not # Nil THEN NotExpr(LoweredCondition(c.Not))
    ELSE EqualsExpr(c.Operand.LHS.expr, c.Operand.RHS.expr)

RECURSIVE LoweredExpression(_)
LoweredExpression(f) ==
    LET ands == [i \in 1..Len(f.AndConditions) |->
                    AndExpr([j \in 1..Len(f.AndConditions[i].OrConditions) |->
                                LoweredCondition(f.AndConditions[i].OrConditions[j])])]
        subs == [i \in 1..Len(f.SubFilterExpr) |-> LoweredExpression(f.SubFilterExpr[i])]
    IN IF subs = <<>> THEN OrExpr(ands) ELSE AndExpr(<<OrExpr(ands)>> \o subs)

\* The truth value of an IR node when val[p] says whether field p equals "1".
RECURSIVE ExprTruth(_, _)
ExprTruth(e, val) ==
    CASE e.kind = "OrExpr" -> \E i \in 1..Len(e.subs) : ExprTruth(e.subs[i], val)
      [] e.kind = "AndExpr" -> \A i \in 1..Len(e.subs) : ExprTruth(e.subs[i], val)
      [] e.kind = "NotExpr" -> ~ExprTruth(e.SubExpr, val)
      [] e.kind = "EqualsExpr" -> val[e.Lhs.Path]

\* The truth value of the parsed expression: the OR over its AndConditions of
\* the AND over their Conditions, AND the truth of every sub-expression.
RECURSIVE ConditionTruth(_, _)
ConditionTruth(c, val) ==
    IF c.Not # Nil THEN ~ConditionTruth(c.Not, val)
    ELSE val[c.Operand.LHS.expr.Path]

RECURSIVE FilterTruth(_, _)
FilterTruth(f, val) ==
    /\ \E i \in 1..Len(f.AndConditions) :
           \A j \in 1..Len(f.AndConditions[i].OrConditions) :
               ConditionTruth(f.AndConditions[i].OrConditions[j], val)
    /\ \A i \in 1..Len(f.SubFilterExpr) : FilterTruth(f.SubFilterExpr[i], val)

\* C18: a parsed expression whose parentheses are balanced lowers, without
\* error, to the Or over its AndConditions of the And over their Conditions,
\* wrapped in And with its lowered sub-filter-expressions when it has any,
\* and the IR has the truth value of the expression under every assignment.
C18_LogicalLowering ==
    (LoweredFilter /\ GetTotalOpenParens(caller.f) = GetTotalCloseParens(caller.f))
        => /\ caller.out.err = Nil
           /\ caller.out.expr = LoweredExpression(caller.f)
           /\ \A val \in [FieldNames -> BOOLEAN] :
                  ExprTruth(caller.out.expr, val) <=> FilterTruth(caller.f, val)
\* The nodes on the way from node index down to its descendant n: n and the
\* proper ancestors of n that are proper descendants of index.
Below(index, n) == {m \in Subtree(index) \ {index} : n \in Subtree(m)}

\* C24: after a MarkNode(index, v) call completes, no descendant of index is
\* Unknown, descendants below a child that was already non-Unknown included.
C24_NoUnknownDescendant ==
    (call.op = "MarkNode" /\ call.panic = NoPanic)
        => \A n \in Subtree(call.marked[1]) : data[n] # binTreeStateUnknown

\* C24 as amended: after a MarkNode(index, v) call completes, every descendant
\* of index that was Unknown and was reached from index through nodes that
\* were Unknown is Resolved, and every other descendant of index is in the
\* state it had before the call.
C24_UnknownChildrenResolved ==
    [][(call'.op = "MarkNode" /\ call'.panic = NoPanic) =>
        LET index == call'.marked[1]
        IN \A n \in Subtree(index) \ {index} :
               data'[n] = IF \A m \in Below(index, n) : data[m] = binTreeStateUnknown
                          THEN binTreeStateResolved
                          ELSE data[n]
      ]_vars

\* MarkNode completed on a node that has a decided child with an Unknown
\* child of its own, which is Unknown still.
C24_Witness ==
    /\ call.op = "MarkNode"
    /\ call.panic = NoPanic
    /\ \E n \in Subtree(call.marked[1]) \ {call.marked[1]} :
           /\ data[n] = binTreeStateUnknown
           /\ tree[n].ParentIdx # call.marked[1]
           /\ data[tree[n].ParentIdx] \in Decided

\* The state the resolution table gives node p for the states its children
\* are in.
TableState(p) ==
    ResolutionTable(tree[p].NodeType, data[tree[p].Left],
                    IF binTreeNodeTypeHasRight(tree[p].NodeType)
                    THEN data[tree[p].Right] ELSE binTreeStateUnknown)

\* C25: from a fresh state with stall index 0, marking only leaves, after
\* every MarkNode call there is no Unknown node with children whose states
\* meet a "becomes True" or "becomes False" condition of the resolution table.
C25_CascadeComplete ==
    \A p \in Nodes \ Leaves :
        data[p] = binTreeStateUnknown => TableState(p) = binTreeStateUnknown

\* One mark on a leaf decided two parents in the same call, the root last.
C25_Witness ==
    /\ call.op = "MarkNode"
    /\ Len(call.marked) >= 3
    /\ call.marked[Len(call.marked)] = 0
    /\ data[0] \in Decided

\* The other child of the parent of node c, a child of an Or, And or Neor node.
Sibling(c) ==
    LET parent == tree[c].ParentIdx
    IN IF tree[parent].Left = c THEN tree[parent].Right ELSE tree[parent].Left

\* A MarkNode call that was accepted on a node c whose parent is of one of
\* the given types and is re-evaluated by the call, the other child of the
\* parent being Resolved.
MarkedBesideResolved(c, types) ==
    /\ c # 0
    /\ c # stallIndex
    /\ tree[tree[c].ParentIdx].NodeType \in types
    /\ data[Sibling(c)] = binTreeStateResolved

\* The same call on the state in which the other child is False instead.
BesideFalse(c, value) ==
    MarkNode(Begin([data EXCEPT ![Sibling(c)] = binTreeStateFalse], stallIndex),
             c, value)

C27_ChildPointersValidated ==
    (Validated /\ caller.err = "nil") =>
        \A item \in Nodes :
            /\ binTreeNodeTypeHasLeft(tree[item].NodeType)
                   => tree[item].Left = item + 1
            /\ binTreeNodeTypeHasRight(tree[item].NodeType)
                   => tree[item].Right = WalkEnd(tree, item + 1)

\* C28: from every state reached by MarkNode on Unknown nodes, SetStallIndex,
\* ResetNode and Reset, Resolve ends without a panic and leaves the root True
\* or False.
C28_ResolveDecidesRoot ==
    call.op = "Resolve" => (call.panic = NoPanic /\ data[0] \in Decided)

\* No node of d that is not Unknown has an Unknown descendant.
DownwardClosed(d) ==
    \A n \in Nodes : d[n] # binTreeStateUnknown
        => \A m \in Subtree(n) : d[m] # binTreeStateUnknown

\* C28 as amended: from every such state in which no node that is not Unknown
\* has an Unknown descendant, Resolve ends without a panic and leaves the root
\* True or False.
C28_ResolveDecidesRootWhenClosed ==
    [][(call'.op = "Resolve" /\ DownwardClosed(data)) =>
        (call'.panic = NoPanic /\ data'[0] \in Decided)
      ]_vars

\* Resolve marked a node, its marks stopped at a stall index other than the
\* root, and it went on to decide the root.
C28_Witness ==
    /\ call.op = "Resolve"
    /\ call.panic = NoPanic
    /\ stallIndex # 0
    /\ data[stallIndex] \in Decided
    /\ Len(call.marked) >= 2
    /\ data[0] \in Decided

\* The number of MarkNode invocations of the last call: the accepted ones and
\* the one that panicked, if any.
Invocations == Len(call.marked) + (IF call.panic = PanicMarkedTwice THEN 1 ELSE 0)

\* The depth of node i: the number of its proper ancestors.
Depth(i) == Cardinality(ProperAncestors(i))

\* C29: one MarkNode call on a valid tree makes at most depth+1 MarkNode
\* invocations, each but the first on the parent of the one before, a
\* strictly smaller index, and none follows the invocation on the root or on
\* the stall index.
C29_CascadeBounded ==
    call.op = "MarkNode" =>
        /\ call.panic \in {NoPanic, PanicMarkedTwice}
        /\ Invocations <= Depth(call.marked[1]) + 1
        /\ \A k \in 1..Len(call.marked) :
               LET m == call.marked[k]
                   followed == k < Len(call.marked) \/ call.panic # NoPanic
               IN /\ k < Len(call.marked)
                      => /\ call.marked[k + 1] = tree[m].ParentIdx
                         /\ call.marked[k + 1] < m
                  /\ followed => (m # 0 /\ m # stallIndex)

\* A mark on a node two levels below the root went all the way up: three
\* invocations, the last on the root.
C29_Witness ==
    /\ call.op = "MarkNode"
    /\ call.panic = NoPanic
    /\ Len(call.marked) >= 3
    /\ Len(call.marked) = Depth(call.marked[1]) + 1

\* C30: in every state reached from a fresh state by MarkNode, Resolve,
\* SetStallIndex and Reset, every descendant of a node that is not Unknown is
\* not Unknown either; once IsResolved(0) holds no node is Unknown, and a
\* MarkNode call on any leaf would panic.
C30_DownwardClosure ==
    /\ DownwardClosed(data)
    /\ IsResolved(Begin(data, stallIndex), 0)
           => /\ \A n \in Nodes : data[n] # binTreeStateUnknown
              /\ \A leaf \in Leaves, value \in BOOLEAN :
                     MarkNode(Begin(data, stallIndex), leaf, value).panic
                         = PanicMarkedTwice

\* A node was decided above a node two levels down that had not been marked:
\* that node is Resolved.
C30_Witness ==
    \E n \in Nodes :
        /\ Depth(n) >= 2
        /\ data[n] = binTreeStateResolved
        /\ data[tree[tree[n].ParentIdx].ParentIdx] \in Decided

\* The field reference a path lowers to.
PathFieldExpr(f) == PathLoop(f, 1, <<>>).expr

\* The function name of each arithmetic operator.
OpName(op) ==
    CASE op.Addition # Nil -> MathFuncAdd
      [] op.Subtraction # Nil -> MathFuncSub
      [] op.Multiply # Nil -> MathFuncMul
      [] op.Division # Nil -> MathFuncDiv
      [] op.Modulo # Nil -> MathFuncMod

\* The literal of an arithmetic operation.
LiteralOf(value) ==
    IF value.IntValue # Nil THEN value.IntValue.value ELSE value.FloatValue.value

C22_RegexpContainsLowering ==
    (caller.kind = "regex" /\ caller.out # Nil) =>
        LET f == caller.f
            arg0 == FEConstFuncArgument_OutputExpression(f.Argument0)
            isLiteral == f.Argument1.Argument # Nil
            pattern == FEValue_String(f.Argument1.Argument)
            pcre == MakePcreExpression(pattern)
        IN IF ~isLiteral \/ arg0.err # Nil
              \/ (tokenIsPcreValueType(pattern) /\ pcre.err # Nil)
           THEN caller.out.err # Nil
           ELSE /\ caller.out.err = Nil
                /\ caller.out.expr =
                      LikeExpr(arg0.expr, IF tokenIsPcreValueType(pattern) THEN pcre.expr
                                          ELSE RegexExpr(pattern))

\* REGEXP_CONTAINS of a field and a function call was lowered: an error.
C22_Witness ==
    /\ caller.kind = "regex"
    /\ caller.out # Nil
    /\ caller.f.Argument0.Field # Nil
    /\ caller.f.Argument1.SubFunc # Nil
    /\ caller.out.err # Nil

\* The stages of a compilation in their order.
Stages == <<"empty check", "parse", "lowering", "transformation">>

\* C23: GetFilterExpressionMatcher returns an error and no matcher when the
\* expression is empty (EmptyInput), when the parser fails or panics and when
\* the lowering fails, and a matcher and no error otherwise; it runs the
\* stages in their order and stops at the first stage that fails.
C23_CompileErrors ==
    (caller.kind = "compile" /\ caller.out # Nil) =>
        LET out == caller.out
            empty == caller.expression = ""
            parserFails == caller.lib.build # "ok" \/ caller.lib.parse # "ok"
            loweringFails == OutputExpression(caller.lib.fe).err # Nil
            ran == IF empty THEN 1
                   ELSE IF parserFails THEN 2
                   ELSE IF loweringFails THEN 3
                   ELSE 4
        IN /\ out.err # Nil <=> (empty \/ parserFails \/ loweringFails)
           /\ out.err # Nil <=> out.matcher = Nil
           /\ empty => out.err = ErrorEmptyInput
           /\ out.stages = SubSeq(Stages, 1, ran)

\* The parser panicked on an expression that is not empty.
C23_Witness ==
    /\ caller.kind = "compile"
    /\ caller.out # Nil
    /\ caller.expression # ""
    /\ caller.lib.parse = "panic"
    /\ caller.out.err # Nil

\* Node p has the state the resolution table gives it for the states its
\* children are in.
Justified(p) == TableState(p) = data[p]

\* C31: in every state reached from a fresh state by MarkNode calls on Unknown
\* leaves, SetStallIndex calls and Resolve calls, every interior node that is
\* True or False has the value the resolution table gives it for its
\* children's states; Resolve never forces an interior node against them.
C31_ValueConsistency ==
    \A p \in Nodes \ Leaves : data[p] \in Decided => Justified(p)

\* C31 as the code has it: an interior node that is True always has the value
\* of the table; one that is False has it as long as no stall was installed
\* at a node other than the root; and an interior node that is False against
\* the table has all its children True or False (Resolve reached it Unknown
\* after a stall had stopped the cascade below it, and marked it False).
C31_ValueConsistencyUnlessForced ==
    \A p \in Nodes \ Leaves :
        /\ data[p] = binTreeStateTrue => Justified(p)
        /\ data[p] = binTreeStateFalse /\ ~caller.stalled => Justified(p)
        /\ data[p] = binTreeStateFalse /\ ~Justified(p) =>
               /\ data[tree[p].Left] \in Decided
               /\ binTreeNodeTypeHasRight(tree[p].NodeType) =>
                      data[tree[p].Right] \in Decided

\* Resolve, after a stall, left an interior node False against the table
\* while another interior node holds the value of the table.
C31_Witness ==
    /\ call.op = "Resolve"
    /\ call.panic = NoPanic
    /\ caller.stalled
    /\ \E p \in Nodes \ Leaves : data[p] = binTreeStateFalse /\ ~Justified(p)
    /\ \E q \in Nodes \ Leaves : data[q] \in Decided /\ Justified(q)

\* C32: in every state reached from a fresh state by MarkNode, Resolve,
\* SetStallIndex and Reset, the parent of every Resolved node is non-Unknown
\* and the root is never Resolved, so that IsResolved(0) holds only of a root
\* that is True or False, with IsTrue(0) telling which.
C32_ResolvedBelowDecision ==
    LET st == Begin(data, stallIndex)
    IN /\ \A n \in Nodes \ {0} :
              data[n] = binTreeStateResolved =>
                  data[tree[n].ParentIdx] # binTreeStateUnknown
       /\ data[0] # binTreeStateResolved
       /\ IsResolved(st, 0) => data[0] \in Decided
       /\ IsResolved(st, 0) =>
              (IsTrue(st, 0) <=> data[0] = binTreeStateTrue)
              /\ (~IsTrue(st, 0) <=> data[0] = binTreeStateFalse)

\* The root is decided above a Resolved node whose parent is Resolved too.
C32_Witness ==
    /\ IsResolved(Begin(data, stallIndex), 0)
    /\ \E n \in Nodes \ {0} :
           /\ data[n] = binTreeStateResolved
           /\ tree[n].ParentIdx # 0
           /\ data[tree[n].ParentIdx] = binTreeStateResolved

\* What state k of the two states a caller copies between holds.
CopyContent(k) ==
    [data |-> caller.heap[caller.state[k].data],
     stallIndex |-> caller.state[k].stallIndex]

\* C33: CopyFrom between two states of the same tree makes every node state
\* of the destination equal to the source's, leaves the source as it was and
\* the destination with its own stall index; between states of different
\* trees it is the fatal error "cannot copy from different tree" and changes
\* neither state.
C33_CopyFrom ==
    [][\A dst \in 1..2, src \in 1..2 :
          (call'.op = "CopyFrom" /\ call'.arg = dst /\ caller'.src = src) =>
              /\ tree' = tree
              /\ IF caller.state[dst].tree = caller.state[src].tree
                 THEN /\ call'.panic = NoPanic
                      /\ CopyContent(dst)'.data = CopyContent(src).data
                      /\ CopyContent(dst)'.stallIndex = CopyContent(dst).stallIndex
                      /\ CopyContent(src)' = CopyContent(src)
                 ELSE /\ call'.panic = "cannot copy from different tree"
                      /\ \A k \in 1..2 : CopyContent(k)' = CopyContent(k)
      ]_vars

\* A state with decided nodes was copied into a state that held other node
\* states and has another stall index.
C33_Witness ==
    /\ caller.kind = "copy"
    /\ call.op = "CopyFrom"
    /\ call.panic = NoPanic
    /\ caller.src # call.arg
    /\ caller.before # CopyContent(call.arg).data
    /\ \E n \in Nodes : caller.before[n] \in Decided
    /\ \E n \in Nodes : CopyContent(caller.src).data[n] \in Decided
    /\ CopyContent(call.arg).stallIndex # CopyContent(caller.src).stallIndex

\* C34: parentheses do not shape the lowered tree.  Of the parsed expressions
\* that differ only in their OpenParens and CloseParens lists, all those that
\* pass the balance check of the lowering (it returns no error) lower to the
\* same IR: each lowering that returns no error returns the IR of the last
\* one before it that did, whatever parentheses were changed in between.
C34_ParensDoNotShapeTheTree ==
    (caller.kind = "parentheses" /\ caller.out # Nil /\ caller.out.err = Nil
        /\ caller.ir # Nil)
        => caller.out.expr = caller.ir

\* An expression with a sub-filter-expression and with parentheses was
\* lowered without error after the same expression with other parentheses.
C34_Witness ==
    /\ caller.kind = "parentheses"
    /\ caller.out # Nil
    /\ caller.out.err = Nil
    /\ caller.ir # Nil
    /\ Len(caller.f.SubFilterExpr) > 0
    /\ GetTotalOpenParens(caller.f) > 0

\* The IR is a reference to a field: a FieldExpr, alone, negated, or as the
\* first operand of an arithmetic function.
IsFieldReference(e) ==
    \/ e.kind = "FieldExpr"
    \/ /\ e.kind = "FuncExpr"
       /\ \/ e.Params[1].kind = "FieldExpr"
          \/ /\ e.Params[1].kind = "FuncExpr"
             /\ e.Params[1].FuncName = MathFuncNeg
             /\ e.Params[1].Params[1].kind = "FieldExpr"

\* C35: a field of exactly one path segment whose text matches an ISO-8601
\* year, year-month or complete-date pattern lowers to the string Value of
\* that text wherever a field is lowered (comparison side, function argument,
\* EXISTS, where the Value is what Exists wraps), its negation, arithmetic
\* operator and literal discarded; every other field lowers to a field
\* reference.
C35_DateShapedField ==
    (caller.kind = "date" /\ caller.out # Nil) =>
        LET field == caller.f.Field
            text == FEOnePath_String(field.Path[1])
            lowered == IF caller.ctx = "FEExistsClause" /\ caller.out.err = Nil
                       THEN caller.out.expr.SubExpr ELSE caller.out.expr
        IN IF Len(field.Path) = 1 /\ text \in iso8601Dates
           THEN /\ caller.out.err = Nil
                /\ lowered = ValueExpr(text)
           ELSE caller.out.err = Nil => IsFieldReference(lowered)

\* EXISTS was lowered over a date-shaped field written with a negation, an
\* operator and a literal.
C35_Witness ==
    /\ caller.kind = "date"
    /\ caller.out # Nil
    /\ caller.ctx = "FEExistsClause"
    /\ caller.f.Field.MathNeg # Nil
    /\ caller.f.Field.MathOp # Nil
    /\ caller.f.Field.MathValue # Nil
    /\ caller.out.err = Nil
    /\ caller.out.expr = ExistsExpr(ValueExpr("2021-01-02"))

====
